---- MODULE Spec2Model ----
(***************************************************************************)
(* Arcadis Procure Insights (Streamlit dashboard): the Data Store held in  *)
(* st.session_state, the upload Validator, Reset to Demo Data, and the     *)
(* pages that filter and read the four tables.                             *)
(*                                                                         *)
(* A DataFrame is [columns, numeric, rows]: the set of column names, the   *)
(* columns whose dtype is numeric, and the rows in order.  A row is a      *)
(* function from the columns whose values the model tracks (plus "idx",    *)
(* the DataFrame index label) to cell values.  A Python Optional is a      *)
(* sequence of length at most one.                                         *)
(***************************************************************************)
EXTENDS Integers, Sequences, FiniteSets, TLC

VARIABLES
    session_state,      \* st.session_state: the four Data Store tables
    data_type,          \* value of the "Select Data Type for Upload" selectbox
    uploaded_file,      \* value of st.file_uploader: None or Some(file)
    reset_clicked,      \* st.button("Reset to Demo Data") is True in this run
    pc,                 \* position of the current script run
    trigger,            \* what started the current script run: "reset" (the button) or "other"
    validation,         \* what validate_data returned in this run, if called
    error,              \* the exception that ended the script run, or "none"
    selected_category,  \* category_intelligence: "Select Category" selectbox
    selected_bu,        \* category_intelligence: "Select Business Unit" selectbox
    date_range,         \* category_intelligence: st.date_input value (1 or 2 dates)
    filtered_data,      \* category_intelligence: the filtered spend table
    insights,           \* category_intelligence: the metrics and messages it showed
    figures,            \* the figures utils/visualizations.py made, in order
    risk_category,      \* supplier_risk: "Select Category" selectbox
    selected_country,   \* supplier_risk: "Select Country" selectbox
    score_range,        \* supplier_risk: "Performance Score Range" slider, in tenths
    filtered_suppliers, \* supplier_risk: the filtered supplier table
    supplier_performance, \* supplier_risk: suppliers merged with latest scores, filtered
    risk_view,          \* supplier_risk: the rankings and alerts it showed
    profile             \* supplier_relationship: the selected supplier's metrics

vars == <<session_state, data_type, uploaded_file, reset_clicked, pc, trigger,
          validation, error, selected_category, selected_bu, date_range,
          filtered_data, risk_category, selected_country, score_range,
          filtered_suppliers, supplier_performance, risk_view, insights, figures,
          profile>>

upload_vars == <<data_type, uploaded_file, reset_clicked>>
category_vars == <<selected_category, selected_bu, date_range, filtered_data,
                   insights, figures>>
risk_vars == <<risk_category, selected_country, score_range, filtered_suppliers,
               supplier_performance, risk_view>>
relationship_vars == <<profile>>
selection_vars == <<selected_category, selected_bu, date_range, risk_category,
                    selected_country, score_range>>

(***************************************************************************)
(* Bounds of the model.                                                    *)
(***************************************************************************)
\* rows of a table enumerated as an upload for the Validator
MaxUploadRows == 2
\* rows of a table enumerated as input of the Filter Engine
MaxFilterRows == 2
\* largest timestamp (in ticks) of an enumerated spend row
MaxTick == 2
\* ticks (time-of-day steps) per calendar day
TicksPerDay == 2
\* calendar days per year-month period
DaysPerMonth == 2
\* suppliers of a spend table enumerated for the concentration metrics
MaxSuppliers == 4
\* last year-month period of a spend table enumerated for the trend metrics
MaxMonth == 3
\* rows of the largest spend table built for the opportunity rules
MaxTransactions == 600
\* supplier names "S01", "S02", ... the model can tell apart
MaxNames == 30
MaxGroups == 12
MaxChartRows == 2

(***************************************************************************)
(* Python values.                                                          *)
(***************************************************************************)
None == << >>
Some(x) == <<x>>
NaN == "NaN"

Range(s) == {s[i] : i \in DOMAIN s}

\* str.join: the pieces with the separator between them, as a token sequence
RECURSIVE Join(_, _)
Join(sep, parts) ==
    IF parts = << >> THEN << >>
    ELSE IF Len(parts) = 1 THEN parts
    ELSE <<Head(parts), sep>> \o Join(sep, Tail(parts))

\* str.endswith on a file name held as <<stem, extension>>
endswith(name, suffix) == name[Len(name)] = suffix

\* str.lower on the extensions the model uses
lower(ext) ==
    CASE ext = ".CSV" -> ".csv"
      [] ext = ".XLSX" -> ".xlsx"
      [] OTHER -> ext

(***************************************************************************)
(* DataFrames.                                                             *)
(***************************************************************************)
DataFrame(columns, numeric, rows) ==
    [columns |-> columns, numeric |-> numeric, rows |-> rows]

\* len(df)
len(df) == Len(df.rows)

\* df[mask]: boolean indexing keeps the rows for which the mask is True, in
\* order, with their index labels; the result is a new object
BooleanIndex(df, Mask(_)) ==
    [df EXCEPT !.rows = SelectSeq(df.rows, Mask)]

\* df[col].unique()
unique(df, col) == {df.rows[i][col] : i \in DOMAIN df.rows}

\* pd.api.types.is_numeric_dtype(df[col])
is_numeric_dtype(df, col) == col \in df.numeric

\* df[col].isnull().sum()
isnull_sum(df, col) ==
    Cardinality({i \in DOMAIN df.rows : df.rows[i][col] = NaN})

(***************************************************************************)
(* Schemas.                                                                *)
(***************************************************************************)
DataTypes ==
    {"Spend Data", "Supplier Master Data", "Contract Data", "Performance Data"}

StateVars == {"spend_data", "supplier_data", "contract_data", "performance_data"}

data_type_map(dt) ==
    CASE dt = "Spend Data" -> "spend_data"
      [] dt = "Supplier Master Data" -> "supplier_data"
      [] dt = "Contract Data" -> "contract_data"
      [] dt = "Performance Data" -> "performance_data"

required_columns(dt) ==
    CASE dt = "Spend Data" ->
           <<"Supplier", "Category", "SubCategory", "BusinessUnit", "Date", "Amount">>
      [] dt = "Supplier Master Data" ->
           <<"SupplierID", "SupplierName", "Category", "Country", "City", "ContactEmail">>
      [] dt = "Contract Data" ->
           <<"ContractID", "SupplierID", "StartDate", "EndDate", "Value", "Category">>
      [] dt = "Performance Data" ->
           <<"SupplierID", "Quarter", "DeliveryScore", "QualityScore",
             "ResponsivenessScore", "OverallScore">>

\* the columns whose cell values the model tracks; of the others only the
\* presence in df.columns is tracked
ValueColumns ==
    {"Supplier", "Category", "SubCategory", "BusinessUnit", "Date", "Amount",
     "SupplierID", "SupplierName", "Country", "Quarter", "OverallScore",
     "ContractID", "Status"}

\* the text columns in which an empty cell is read as NaN
TextColumns ==
    {"Supplier", "Category", "SubCategory", "BusinessUnit", "SupplierID",
     "SupplierName", "Country", "ContractID", "Status"}

(***************************************************************************)
(* Sample Data Generator (utils/mock_data.py).  random.choice is a         *)
(* nondeterministic choice: each generator is the set of tables it can     *)
(* return, cut down to two rows.                                           *)
(***************************************************************************)
MockSpendColumns ==
    {"Supplier", "Category", "SubCategory", "BusinessUnit", "Date", "Amount",
     "InvoiceID", "POID", "PaymentTerms", "Currency"}

\* lines 18-29: a sub-category of each category
subcategories(category) ==
    CASE category = "Mechanical" -> "Pumps"
      [] category = "Electrical" -> "Lighting"
      [] category = "HVAC" -> "Ductwork"
      [] OTHER -> "Controls"

MockSpendRow(i, supplier, category, bu, date, amount) ==
    [idx |-> i, Supplier |-> supplier, Category |-> category,
     SubCategory |-> subcategories(category),
     BusinessUnit |-> bu, Date |-> date, Amount |-> amount]

get_mock_spend_data ==
    { DataFrame(MockSpendColumns, {"Amount"},
        <<MockSpendRow(0, "Johnson Controls", "Mechanical", "Commercial", 0, 15000),
          MockSpendRow(1, "Schneider Electric", category, bu, 1, 12000)>>) :
      category \in {"Mechanical", "Electrical"}, bu \in {"Commercial"} }

MockSupplierColumns ==
    {"SupplierID", "SupplierName", "Category", "Country", "City", "Latitude",
     "Longitude", "ContactName", "ContactEmail", "ContactPhone", "AnnualRevenue",
     "PaymentTerms", "Active", "RelationshipStartDate"}

get_mock_supplier_data ==
    { DataFrame(MockSupplierColumns, {"Latitude", "Longitude", "AnnualRevenue"},
        <<[idx |-> 0, SupplierID |-> "S0001", SupplierName |-> "Johnson Controls",
           Category |-> "Building Automation", Country |-> "USA"],
          [idx |-> 1, SupplierID |-> "S0002", SupplierName |-> "Schneider Electric",
           Category |-> "Electrical", Country |-> "France"]>>) }

MockContractColumns ==
    {"ContractID", "SupplierID", "SupplierName", "Category", "ContractType",
     "StartDate", "EndDate", "Value", "Currency", "Status", "AutoRenewal",
     "NoticePeriodDays"}

get_mock_contract_data ==
    { DataFrame(MockContractColumns, {"Value", "NoticePeriodDays"},
        <<[idx |-> 0, ContractID |-> "C00011", SupplierID |-> "S0001",
           SupplierName |-> "Johnson Controls", Category |-> "Building Automation",
           Status |-> "Active"],
          [idx |-> 1, ContractID |-> "C00021", SupplierID |-> "S0002",
           SupplierName |-> "Schneider Electric", Category |-> "Electrical",
           Status |-> "Expired"]>>) }

MockPerformanceColumns ==
    {"SupplierID", "Quarter", "DeliveryScore", "QualityScore",
     "ResponsivenessScore", "OverallScore", "Comments"}

\* scores are held in tenths (85 is 8.5); a Quarter label is held as its
\* ordinal ("2022-Q1" is 1, "2023-Q4" is 8), whose order is the labels' order
get_mock_performance_data ==
    { DataFrame(MockPerformanceColumns,
        {"DeliveryScore", "QualityScore", "ResponsivenessScore", "OverallScore"},
        <<[idx |-> 0, SupplierID |-> "S0001", Quarter |-> 8, DeliveryScore |-> 90,
           QualityScore |-> 85, ResponsivenessScore |-> 75, OverallScore |-> 85],
          [idx |-> 1, SupplierID |-> "S0002", Quarter |-> 8, DeliveryScore |-> 55,
           QualityScore |-> 70, ResponsivenessScore |-> 60, OverallScore |-> 62]>>) }

(***************************************************************************)
(* Uploaded files.  A file is its name <<stem, extension>>, the format of  *)
(* its bytes, and, for a well-formed file, the header and the raw cells.   *)
(***************************************************************************)
UploadedFile(name, format, columns, rows) ==
    [name |-> name, format |-> format, columns |-> columns, rows |-> rows]

\* a raw row cut down to the columns the file has
Restrict(row, columns) == [c \in (DOMAIN row) \cap columns |-> row[c]]

RestrictRows(rows, columns) == [i \in DOMAIN rows |-> Restrict(rows[i], columns)]

\* the number a cell's text reads as
ToNumber(cell) ==
    CASE cell = "100" -> 100
      [] cell = "250" -> 250
      [] OTHER -> 0

IsNumberText(cell) == cell \in {"100", "250"}

\* the parser's dtype inference for the Amount column: numeric when there
\* is at least one row and every cell reads as a number, object otherwise
InferNumeric(columns, rows) ==
    {c \in columns \cap {"Amount"} :
        /\ rows # << >>
        /\ \A i \in DOMAIN rows : IsNumberText(rows[i][c])}

ParseRow(raw, i, numeric) ==
    [c \in (DOMAIN raw) \cup {"idx"} |->
        IF c = "idx" THEN i - 1
        ELSE IF c \in numeric THEN ToNumber(raw[c])
        ELSE IF c \in TextColumns /\ raw[c] = "" THEN NaN
        ELSE raw[c]]

\* a parser's outcome: it raised, or it returned a value
Raised(exc) == [raised |-> TRUE, exc |-> exc, value |-> None]
Returned(v) == [raised |-> FALSE, exc |-> << >>, value |-> Some(v)]

\* pd.read_csv / pd.read_excel: raises on bytes that are not of its format
read_table(file, format) ==
    IF file.format # format
    THEN Raised(<<"ParserError">>)
    ELSE LET numeric == InferNumeric(file.columns, file.rows)
         IN Returned(DataFrame(file.columns, numeric,
                [i \in DOMAIN file.rows |-> ParseRow(file.rows[i], i, numeric)]))

load_data(file, file_type) ==
    IF file_type = "csv" THEN read_table(file, "csv")
    ELSE IF file_type = "excel" THEN read_table(file, "excel")
    ELSE Raised(<<"Unsupported file type. Please upload a CSV or Excel file.">>)

(***************************************************************************)
(* Validator (utils/data_manager.py).                                      *)
(***************************************************************************)
\* a validator that stops at the first required column it does not find
missing_columns_first(data, dt) ==
    LET missing == SelectSeq(required_columns(dt), LAMBDA col : col \notin data.columns)
    IN  IF missing = << >> THEN << >> ELSE <<Head(missing)>>

missing_columns(data, dt) ==
    SelectSeq(required_columns(dt), LAMBDA col : col \notin data.columns)

MissingMessage(missing) ==
    <<"Missing required columns: ">> \o Join(", ", missing)

\* a validator without the null-Supplier check of lines 69-71
validate_loaded_no_null_check(data, dt) ==
    LET missing == SelectSeq(required_columns(dt), LAMBDA col : col \notin data.columns)
    IN  IF missing # << >> THEN
            <<FALSE, <<"Missing required columns: ">> \o Join(", ", missing), None>>
        ELSE IF dt = "Spend Data" /\ ~is_numeric_dtype(data, "Amount") THEN
            <<FALSE, <<"Amount column must contain numeric values">>, None>>
        ELSE <<TRUE, <<"Data validated successfully">>, Some(data)>>

\* a validator that counts the missing Supplier cells (lines 69-71) before
\* it looks at the dtype of Amount (lines 65-66)
validate_loaded_null_check_first(data, dt) ==
    LET missing == SelectSeq(required_columns(dt), LAMBDA col : col \notin data.columns)
    IN  IF missing # << >> THEN
            <<FALSE, <<"Missing required columns: ">> \o Join(", ", missing), None>>
        ELSE IF dt = "Spend Data" /\ isnull_sum(data, "Supplier") > 0 THEN
            <<FALSE, <<"Found ", ToString(isnull_sum(data, "Supplier")),
                       " rows with missing supplier information">>, None>>
        ELSE IF dt = "Spend Data" /\ ~is_numeric_dtype(data, "Amount") THEN
            <<FALSE, <<"Amount column must contain numeric values">>, None>>
        ELSE <<TRUE, <<"Data validated successfully">>, Some(data)>>

\* the checks of one data type on the loaded table
validate_loaded(data, dt) ==
    LET missing == missing_columns(data, dt)
    IN  IF dt = "Spend Data" THEN
            IF missing # << >> THEN
                <<FALSE, MissingMessage(missing), None>>
            ELSE IF ~is_numeric_dtype(data, "Amount") THEN
                <<FALSE, <<"Amount column must contain numeric values">>, None>>
            ELSE IF isnull_sum(data, "Supplier") > 0 THEN
                <<FALSE, <<"Found ", ToString(isnull_sum(data, "Supplier")),
                           " rows with missing supplier information">>, None>>
            ELSE <<TRUE, <<"Data validated successfully">>, Some(data)>>
        ELSE IF dt \in {"Supplier Master Data", "Contract Data", "Performance Data"} THEN
            IF missing # << >> THEN
                <<FALSE, MissingMessage(missing), None>>
            ELSE <<TRUE, <<"Data validated successfully">>, Some(data)>>
        ELSE <<TRUE, <<"Data validated successfully">>, Some(data)>>

\* the body of the try block
validate_try(file, dt) ==
    IF endswith(file.name, ".csv") \/ endswith(file.name, ".xlsx") THEN
        LET file_type == IF endswith(file.name, ".csv") THEN "csv" ELSE "excel"
            loaded == load_data(file, file_type)
        IN  IF loaded.raised THEN loaded
            ELSE Returned(validate_loaded(loaded.value[1], dt))
    ELSE Returned(<<FALSE,
            <<"Unsupported file type. Please upload a CSV or Excel file.">>, None>>)

\* a validator without the except clause: what the try block raised goes on
\* to the caller
except_Exception_reraise(outcome) == outcome

\* except Exception as e: return False, f"Error during validation: {str(e)}", None
except_Exception(outcome) ==
    IF outcome.raised
    THEN Returned(<<FALSE, <<"Error during validation: ">> \o outcome.exc, None>>)
    ELSE outcome

validate_data(file, dt) == except_Exception(validate_try(file, dt))

(***************************************************************************)
(* The files a user uploads in the application's runs.                     *)
(***************************************************************************)
RequiredSet(dt) == Range(required_columns(dt))

SpendRawRow(supplier, category, bu, date, amount) ==
    [Supplier |-> supplier, Category |-> category,
     SubCategory |-> subcategories(category), BusinessUnit |-> bu,
     Date |-> date, Amount |-> amount]

SpendRawRows ==
    <<SpendRawRow("Acme", "HVAC", "Commercial", 0, "100"),
      SpendRawRow("Acme", "Electrical", "Healthcare", 1, "250")>>

SupplierRawRows ==
    <<[SupplierID |-> "S0001", SupplierName |-> "Acme", Category |-> "HVAC",
       Country |-> "USA"]>>

ContractRawRows ==
    <<[ContractID |-> "K1", SupplierID |-> "S0001", Category |-> "HVAC"]>>

PerformanceRawRows ==
    <<[SupplierID |-> "S0001", Quarter |-> 9, DeliveryScore |-> 60,
       QualityScore |-> 80, ResponsivenessScore |-> 70, OverallScore |-> 70]>>

RawRowsOf(dt) ==
    CASE dt = "Spend Data" -> SpendRawRows
      [] dt = "Supplier Master Data" -> SupplierRawRows
      [] dt = "Contract Data" -> ContractRawRows
      [] dt = "Performance Data" -> PerformanceRawRows

\* a well-formed CSV file holding exactly the required columns of a data type
RequiredOnlyFile(dt) ==
    UploadedFile(<<data_type_map(dt), ".csv">>, "csv", RequiredSet(dt),
                 RestrictRows(RawRowsOf(dt), RequiredSet(dt)))

UploadCatalog ==
    {RequiredOnlyFile(dt) : dt \in DataTypes}
    \cup
    { \* upper-case extension: passes the uploader, not str.endswith
      UploadedFile(<<"spend", ".CSV">>, "csv", RequiredSet("Spend Data"), SpendRawRows),
      \* CSV bytes named .xlsx: read_excel raises
      UploadedFile(<<"spend", ".xlsx">>, "csv", RequiredSet("Spend Data"), SpendRawRows),
      \* Date and Amount columns absent
      UploadedFile(<<"spend_missing", ".csv">>, "csv",
                   RequiredSet("Spend Data") \ {"Date", "Amount"},
                   RestrictRows(SpendRawRows, RequiredSet("Spend Data") \ {"Date", "Amount"})),
      \* a text cell in Amount
      UploadedFile(<<"spend_text", ".csv">>, "csv", RequiredSet("Spend Data"),
                   <<SpendRawRow("Acme", "HVAC", "Commercial", 0, "n/a")>>),
      \* an empty Supplier cell
      UploadedFile(<<"spend_null", ".csv">>, "csv", RequiredSet("Spend Data"),
                   <<SpendRawRow("", "HVAC", "Commercial", 0, "100")>>),
      \* a file of another kind, which the uploader refuses
      UploadedFile(<<"notes", ".txt">>, "csv", {}, << >>) }

(***************************************************************************)
(* Application (app.py).                                                   *)
(***************************************************************************)
\* st.file_uploader(type=["csv", "xlsx"]) takes a file by its extension,
\* compared without regard to case
file_uploader_accepts(file) ==
    lower(file.name[Len(file.name)]) \in {".csv", ".xlsx"}

\* the four generator calls of the session-state initialisation and of
\* Reset to Demo Data
MockSessionStates ==
    [spend_data : get_mock_spend_data,
     supplier_data : get_mock_supplier_data,
     contract_data : get_mock_contract_data,
     performance_data : get_mock_performance_data]

\* an upload handler that appends the upload's rows to the table in place
UploadAssign_append(state, state_var, result) ==
    IF result[1]
    THEN [state EXCEPT ![state_var] =
            [@ EXCEPT !.rows = @ \o result[3][1].rows]]
    ELSE state

\* is_valid, message, data = validate_data(uploaded_file, data_type)
\* if is_valid: st.session_state[state_var] = data
UploadAssign(state, state_var, result) ==
    IF result[1] THEN [state EXCEPT ![state_var] = result[3][1]] ELSE state

\* lines 152-168: the upload handler of one script run
UploadHandler ==
    /\ pc = "upload"
    /\ IF uploaded_file # None THEN
           LET outcome == validate_data(uploaded_file[1], data_type)
           IN  IF outcome.raised THEN
                   /\ error' = "Exception"
                   /\ pc' = "idle"
                   /\ UNCHANGED <<session_state, validation>>
               ELSE
                   /\ validation' = Some(outcome.value[1])
                   /\ session_state' =
                        UploadAssign(session_state, data_type_map(data_type),
                                     outcome.value[1])
                   /\ pc' = "reset"
                   /\ UNCHANGED error
       ELSE /\ pc' = "reset"
            /\ UNCHANGED <<session_state, validation, error>>
    /\ UNCHANGED <<upload_vars, trigger, category_vars, risk_vars, relationship_vars>>

\* what st.rerun() does to the position of the script: it starts over
st_rerun == "upload"

\* lines 171-177: the Reset to Demo Data button of one script run
ResetButton ==
    /\ pc = "reset"
    /\ IF reset_clicked THEN
           /\ session_state' \in MockSessionStates
           /\ reset_clicked' = FALSE
           /\ validation' = None
           /\ pc' = st_rerun
       ELSE /\ pc' = "tab1"
            /\ UNCHANGED <<session_state, reset_clicked, validation>>
    /\ UNCHANGED <<data_type, uploaded_file, trigger, error, category_vars, risk_vars,
                   relationship_vars>>

(***************************************************************************)
(* Object references.  A page holds DataFrame objects by reference: `ref`  *)
(* is the session-state key when the object is the Data Store's table      *)
(* itself, and "local" when it is an object the page made.  Assigning a    *)
(* column writes to the object, whichever it is.                           *)
(***************************************************************************)
Ref(key, df) == [ref |-> key, df |-> df]

\* a page that takes the Data Store's table without .copy(): the same object
copy_alias(h) == h

\* DataFrame.copy(): a new object with the same contents
copy(h) == Ref("local", h.df)

\* h[mask]: boolean indexing returns a new object
Index(h, Mask(_)) == Ref("local", BooleanIndex(h.df, Mask))

\* h[col] = F(row): the column is added to the object h refers to
AssignColumn(h, col, F(_)) ==
    Ref(h.ref,
        [h.df EXCEPT
            !.columns = @ \cup {col},
            !.rows = [i \in DOMAIN @ |->
                        [c \in (DOMAIN @[i]) \cup {col} |->
                            IF c = col THEN F(@[i]) ELSE @[i][c]]]])

\* the Data Store after the page's writes to the objects it holds
WriteThrough(state, h) ==
    IF h.ref \in StateVars THEN [state EXCEPT ![h.ref] = h.df] ELSE state

(***************************************************************************)
(* Filter Engine of the Category Intelligence page                         *)
(* (pages/category_intelligence.py).                                       *)
(***************************************************************************)
Min(S) == CHOOSE x \in S : \A y \in S : x <= y
Max(S) == CHOOSE x \in S : \A y \in S : x >= y

\* pd.to_datetime(...).dt.date: the calendar day of a timestamp
to_date(ts) == ts \div TicksPerDay

\* pd.to_datetime(...).dt.strftime('%Y-%m'): the year-month of a timestamp
strftime_month(ts) == to_date(ts) \div DaysPerMonth

\* the options of the two selectboxes
CategoryOptions(spend) == {"All Categories"} \cup unique(spend, "Category")
BusinessUnitOptions(spend) == {"All Business Units"} \cup unique(spend, "BusinessUnit")

min_date(spend) == Min({to_date(spend.rows[i].Date) : i \in DOMAIN spend.rows})
max_date(spend) == Max({to_date(spend.rows[i].Date) : i \in DOMAIN spend.rows})

\* st.date_input(value=(min_date, max_date), min_value, max_value): the two
\* ends of a range within the limits, or one date while the range is being
\* picked
DateRangeDefault(spend) == <<min_date(spend), max_date(spend)>>

DateRangeOptions(spend) ==
    LET days == min_date(spend) .. max_date(spend)
    IN  {r \in days \X days : r[1] <= r[2]} \cup {<<a>> : a \in days}

\* a category filter that takes "All" for the sentinel
FilterCategory_other_sentinel(h, category) ==
    IF category # "All"
    THEN Index(h, LAMBDA r : r.Category = category)
    ELSE h

\* lines 45-46
FilterCategory(h, category) ==
    IF category # "All Categories"
    THEN Index(h, LAMBDA r : r.Category = category)
    ELSE h

\* a business-unit filter that keeps the first matching row only
FilterBusinessUnit_first_match(h, bu) ==
    IF bu # "All Business Units"
    THEN LET matching == Index(h, LAMBDA r : r.BusinessUnit = bu)
         IN  Ref("local", [matching.df EXCEPT
                 !.rows = IF @ = << >> THEN @ ELSE <<Head(@)>>])
    ELSE h

\* lines 48-49
FilterBusinessUnit(h, bu) ==
    IF bu # "All Business Units"
    THEN Index(h, LAMBDA r : r.BusinessUnit = bu)
    ELSE h

\* a date filter whose end date is exclusive
FilterDateRange_exclusive_end(h, range) ==
    IF Len(range) = 2
    THEN Index(h, LAMBDA r : to_date(r.Date) >= range[1] /\ to_date(r.Date) < range[2])
    ELSE h

\* lines 51-56
FilterDateRange(h, range) ==
    IF Len(range) = 2
    THEN Index(h, LAMBDA r : to_date(r.Date) >= range[1] /\ to_date(r.Date) <= range[2])
    ELSE h

\* lines 43-56: filtered_data of the page
ApplySpendFilters(spend_data, category, bu, range) ==
    FilterDateRange(
        FilterBusinessUnit(
            FilterCategory(copy(spend_data), category), bu), range)

(***************************************************************************)
(* Numbers.  A float is held as the exact fraction it stands for,          *)
(* num / den with den > 0 in lowest terms.                                 *)
(***************************************************************************)
Abs(x) == IF x < 0 THEN -x ELSE x

RECURSIVE GCD(_, _)
GCD(a, b) == IF b = 0 THEN a ELSE GCD(b, a % b)

\* n / d, for d # 0
Frac(n, d) ==
    LET g == GCD(Abs(n), Abs(d))
        sign == IF d < 0 THEN -1 ELSE 1
    IN  [num |-> sign * (n \div g), den |-> sign * (d \div g)]

\* n / d * 100, for d # 0
Percent(n, d) == Frac(Frac(n, d).num * 100, Frac(n, d).den)

\* an integer as a float
Whole(n) == [num |-> n, den |-> 1]

\* a < b and a <= b of two floats
FracLT(a, b) == a.num * b.den < b.num * a.den
FracLE(a, b) == a.num * b.den <= b.num * a.den

(***************************************************************************)
(* Aggregation (pandas groupby, sort_values, head).                        *)
(***************************************************************************)
\* the text values of the model in the order Python sorts them
SupplierNameOf(i) == IF i < 10 THEN "S0" \o ToString(i) ELSE "S" \o ToString(i)

\* the name of a category of an uploaded table
GroupNameOf(i) == IF i < 10 THEN "G0" \o ToString(i) ELSE "G" \o ToString(i)

KeyOrder ==
    <<"Acme", "Building Automation", "Commercial", "Controls", "Ductwork",
      "Electrical">>
    \o [i \in 1..MaxGroups |-> GroupNameOf(i)]
    \o <<"HVAC", "Healthcare", "Johnson Controls", "Lighting", "Mechanical", "Pumps">>
    \o [i \in 1..MaxNames |-> SupplierNameOf(i)]
    \o <<"Schneider Electric">>

RECURSIVE SortedInts(_)
SortedInts(S) ==
    IF S = {} THEN << >>
    ELSE LET least == CHOOSE x \in S : \A y \in S : x <= y
         IN  <<least>> \o SortedInts(S \ {least})

\* sorted(keys): text keys in ascending order
sorted(keys) == SelectSeq(KeyOrder, LAMBDA k : k \in keys)

RECURSIVE SumRange(_, _, _)
\* the sum of Amount over rows lo..hi, by halves
SumRange(rows, lo, hi) ==
    IF lo > hi THEN 0
    ELSE IF lo = hi THEN rows[lo].Amount
    ELSE LET mid == (lo + hi) \div 2
         IN  SumRange(rows, lo, mid) + SumRange(rows, mid + 1, hi)

\* rows["Amount"].sum() of the first n rows
SumAmount(rows, n) == SumRange(rows, 1, n)

\* df["Amount"].sum()
sum(df) == SumAmount(df.rows, Len(df.rows))

\* df[col].nunique(): NaN is not counted
nunique(df, col) == Cardinality(unique(df, col) \ {NaN})

\* df.groupby(col)["Amount"].sum().reset_index(): one row for each key that
\* is not NaN, in ascending key order
groupby_sum(df, col) ==
    LET keys == sorted(unique(df, col) \ {NaN})
    IN  [i \in DOMAIN keys |->
            [key |-> keys[i],
             Amount |-> sum([df EXCEPT !.rows =
                                SelectSeq(@, LAMBDA r : r[col] = keys[i])])]]

RECURSIVE sort_values_descending(_)
\* .sort_values("Amount", ascending=False): rows of equal Amount keep their
\* order
sort_values_descending(rows) ==
    IF rows = << >> THEN << >>
    ELSE LET first == CHOOSE i \in DOMAIN rows :
                         /\ \A j \in DOMAIN rows : rows[j].Amount <= rows[i].Amount
                         /\ \A j \in 1..(i - 1) : rows[j].Amount < rows[i].Amount
         IN  <<rows[first]>>
                 \o sort_values_descending(
                        SubSeq(rows, 1, first - 1) \o SubSeq(rows, first + 1, Len(rows)))

\* .head(n)
head(rows, n) == SubSeq(rows, 1, IF Len(rows) < n THEN Len(rows) ELSE n)

(***************************************************************************)
(* Charts (utils/visualizations.py).  A figure is its type and the data    *)
(* it draws.                                                               *)
(***************************************************************************)
\* create_spend_chart with the pie chart kept up to 11 groups
create_spend_chart_pie_to_eleven(data, dimension) ==
    LET df_grouped == sort_values_descending(groupby_sum(data, dimension))
    IN  IF Len(df_grouped) <= 11
        THEN [type |-> "pie", names |-> dimension, data |-> df_grouped]
        ELSE [type |-> "bar", names |-> dimension, data |-> head(df_grouped, 10)]

\* create_spend_chart(data, dimension), lines 28-55 (time_dimension=None)
create_spend_chart(data, dimension) ==
    LET df_grouped == sort_values_descending(groupby_sum(data, dimension))
    IN  IF Len(df_grouped) <= 10
        THEN [type |-> "pie", names |-> dimension, data |-> df_grouped]
        ELSE [type |-> "bar", names |-> dimension, data |-> head(df_grouped, 10)]

NotEnoughData ==
    [type |-> "annotation",
     text |-> "Not enough data to generate heatmap.<br>Try adjusting your filters."]

\* lines 135-152: groupby([y_dim, x_dim]) leaves out the rows with a NaN key;
\* pivot(...).fillna(0) gives 0 to a combination without rows
heatmap_grid(data, x_dim, y_dim) ==
    LET grouped == SelectSeq(data.rows, LAMBDA r : r[x_dim] # NaN /\ r[y_dim] # NaN)
        xs == sorted({grouped[i][x_dim] : i \in DOMAIN grouped})
        ys == sorted({grouped[i][y_dim] : i \in DOMAIN grouped})
        cell(y, x) == SelectSeq(grouped, LAMBDA r : r[y_dim] = y /\ r[x_dim] = x)
    IN  IF grouped = << >>
        \* line 155: df_pivot.values.max() of an empty array
        THEN [type |-> "ValueError"]
        ELSE [type |-> "heatmap", x |-> xs, y |-> ys,
              z |-> [i \in DOMAIN ys |->
                        [j \in DOMAIN xs |->
                            IF cell(ys[i], xs[j]) = << >> THEN 0
                            ELSE SumAmount(cell(ys[i], xs[j]),
                                           Len(cell(ys[i], xs[j])))]]]

\* create_risk_heatmap with a guard of one distinct value on each dimension
create_risk_heatmap_one_value(data, x_dim, y_dim) ==
    IF \/ len(data) = 0
       \/ Cardinality(unique(data, x_dim)) < 1
       \/ Cardinality(unique(data, y_dim)) < 1
    THEN NotEnoughData
    ELSE heatmap_grid(data, x_dim, y_dim)

\* create_risk_heatmap(data, x_dim, y_dim, value="Amount"), lines 131-168;
\* unique() counts NaN as a value
create_risk_heatmap(data, x_dim, y_dim) ==
    IF \/ len(data) = 0
       \/ Cardinality(unique(data, x_dim)) < 2
       \/ Cardinality(unique(data, y_dim)) < 2
    THEN NotEnoughData
    ELSE heatmap_grid(data, x_dim, y_dim)

(***************************************************************************)
(* Insight computations of the Category Intelligence page.                 *)
(***************************************************************************)
\* lines 65-68
SpendMetrics(df) ==
    [total_spend |-> sum(df),
     avg_transaction |-> Frac(sum(df), len(df)),
     transaction_count |-> len(df),
     supplier_count |-> nunique(df, "Supplier")]

\* lines 101-109 with the test of line 108 before the test of line 106
opportunity_alert_efficiency_first(m) ==
    IF m.supplier_count > 0 /\ m.transaction_count > 0 THEN
        LET transactions_per_supplier == Frac(m.transaction_count, m.supplier_count)
        IN  IF FracLT(transactions_per_supplier, Whole(5)) THEN
                <<"Opportunity Alert">>
            ELSE IF FracLT(m.avg_transaction, Whole(1000)) /\ m.transaction_count > 100 THEN
                <<"Efficiency Alert">>
            ELSE IF m.supplier_count < 3 /\ m.total_spend > 500000 THEN
                <<"Risk Alert">>
            ELSE << >>
    ELSE << >>

\* lines 101-109: the messages st.info shows
opportunity_alert(m) ==
    IF m.supplier_count > 0 /\ m.transaction_count > 0 THEN
        LET transactions_per_supplier == Frac(m.transaction_count, m.supplier_count)
        IN  IF FracLT(transactions_per_supplier, Whole(5)) THEN
                <<"Opportunity Alert">>
            ELSE IF m.supplier_count < 3 /\ m.total_spend > 500000 THEN
                <<"Risk Alert">>
            ELSE IF FracLT(m.avg_transaction, Whole(1000)) /\ m.transaction_count > 100 THEN
                <<"Efficiency Alert">>
            ELSE << >>
    ELSE << >>

\* lines 140-141
suppliers_df(df) == head(sort_values_descending(groupby_sum(df, "Supplier")), 10)

\* lines 144-146 with the share of every listed supplier in place of the
\* first three
top3_concentration_all_listed(df) ==
    LET top == suppliers_df(df)
        total_category_spend == sum(df)
    IN  IF total_category_spend > 0
        THEN Percent(SumAmount(top, Len(top)), total_category_spend)
        ELSE Whole(0)

\* lines 144-146 over the suppliers in the order groupby leaves them, without
\* the sort of line 141
top3_concentration_unsorted(df) ==
    LET top == head(groupby_sum(df, "Supplier"), 10)
        total_category_spend == sum(df)
        top3_spend == IF Len(top) >= 3 THEN SumAmount(head(top, 3), 3)
                      ELSE SumAmount(top, Len(top))
    IN  IF total_category_spend > 0
        THEN Percent(top3_spend, total_category_spend)
        ELSE Whole(0)

\* lines 144-146
top3_concentration(df) ==
    LET top == suppliers_df(df)
        total_category_spend == sum(df)
        top3_spend == IF Len(top) >= 3 THEN SumAmount(head(top, 3), 3)
                      ELSE SumAmount(top, Len(top))
    IN  IF total_category_spend > 0
        THEN Percent(top3_spend, total_category_spend)
        ELSE Whole(0)

\* line 195: filtered_data.groupby("Month")["Amount"].sum().reset_index()
monthly_totals(df) ==
    LET months == SortedInts({df.rows[i].Month : i \in DOMAIN df.rows})
    IN  [i \in DOMAIN months |->
            [Month |-> months[i],
             Amount |-> sum([df EXCEPT !.rows =
                                SelectSeq(@, LAMBDA r : r.Month = months[i])])]]

\* lines 197-200 with the period before the last one in place of the first
change_pct_previous(monthly) ==
    IF Len(monthly) >= 3 THEN
        LET first_month == monthly[Len(monthly) - 1].Amount
            last_month == monthly[Len(monthly)].Amount
        IN  Some(IF first_month > 0
                 THEN Percent(last_month - first_month, first_month)
                 ELSE Whole(0))
    ELSE None

\* lines 197-200 computed from two periods on
change_pct_two_periods(monthly) ==
    IF Len(monthly) >= 2 THEN
        LET first_month == monthly[1].Amount
            last_month == monthly[Len(monthly)].Amount
        IN  Some(IF first_month > 0
                 THEN Percent(last_month - first_month, first_month)
                 ELSE Whole(0))
    ELSE None

\* lines 197-200: change_pct, computed when there are three periods or more
change_pct(monthly) ==
    IF Len(monthly) >= 3 THEN
        LET first_month == monthly[1].Amount
            last_month == monthly[Len(monthly)].Amount
        IN  Some(IF first_month > 0
                 THEN Percent(last_month - first_month, first_month)
                 ELSE Whole(0))
    ELSE None

\* lines 176-181 with the dependency-risk message from 75 on
concentration_message_from_75(top3, ranked) ==
    IF FracLE(Whole(75), top3) THEN <<"High supplier concentration detected.">>
    ELSE IF FracLT(top3, Whole(30)) /\ ranked > 7 THEN
        <<"Fragmented supplier base detected.">>
    ELSE IF FracLE(Whole(50), top3) /\ FracLE(top3, Whole(75)) THEN
        <<"Balanced supplier concentration.">>
    ELSE << >>

\* lines 176-181: the message under the top-suppliers chart, of
\* top3_concentration and len(suppliers_df)
concentration_message(top3, ranked) ==
    IF FracLT(Whole(75), top3) THEN <<"High supplier concentration detected.">>
    ELSE IF FracLT(top3, Whole(30)) /\ ranked > 7 THEN
        <<"Fragmented supplier base detected.">>
    ELSE IF FracLE(Whole(50), top3) /\ FracLE(top3, Whole(75)) THEN
        <<"Balanced supplier concentration.">>
    ELSE << >>

\* abs(change_pct)
FracAbs(a) == [num |-> Abs(a.num), den |-> a.den]

\* lines 203-224 with "greater than or equal to 20" for the growth warning
trend_message_warning_from_20(change) ==
    IF change = None THEN None
    ELSE LET c == change[1] IN
         IF FracLT(FracAbs(c), Whole(5)) THEN
             Some([color |-> "info", message |-> "Stable Spending Pattern"])
         ELSE IF FracLE(Whole(20), c) THEN
             Some([color |-> "warning", message |-> "Significant Spending Growth"])
         ELSE IF FracLT(Whole(0), c) THEN
             Some([color |-> "info", message |-> "Moderate Spending Growth"])
         ELSE IF FracLT(c, Whole(-20)) THEN
             Some([color |-> "success", message |-> "Major Spending Reduction"])
         ELSE Some([color |-> "success", message |-> "Spending Reduction"])

\* lines 197-224: the trend insight box, shown when change_pct was computed
trend_message(change) ==
    IF change = None THEN None
    ELSE LET c == change[1] IN
         IF FracLT(FracAbs(c), Whole(5)) THEN
             Some([color |-> "info", message |-> "Stable Spending Pattern"])
         ELSE IF FracLT(Whole(20), c) THEN
             Some([color |-> "warning", message |-> "Significant Spending Growth"])
         ELSE IF FracLT(Whole(0), c) THEN
             Some([color |-> "info", message |-> "Moderate Spending Growth"])
         ELSE IF FracLT(c, Whole(-20)) THEN
             Some([color |-> "success", message |-> "Major Spending Reduction"])
         ELSE Some([color |-> "success", message |-> "Spending Reduction"])

\* lines 59-60: what the page shows of a filtered table without rows
NoDataInsights ==
    [warning |-> "No data available with the selected filters."]

\* lines 62-224: what the page computes of a filtered table with rows (the
\* table has its Month column)
SpendInsights(df) ==
    [warning |-> "none",
     metrics |-> SpendMetrics(df),
     opportunity |-> opportunity_alert(SpendMetrics(df)),
     suppliers_df |-> suppliers_df(df),
     top3_concentration |-> top3_concentration(df),
     concentration_message |->
         concentration_message(top3_concentration(df), Len(suppliers_df(df))),
     monthly_totals |-> monthly_totals(df),
     change_pct |-> change_pct(monthly_totals(df)),
     trend_message |-> trend_message(change_pct(monthly_totals(df)))]

(***************************************************************************)
(* Pages.  Every tab's code runs in every script run, in the order of      *)
(* app.py; an exception raised by a page ends the script run.              *)
(***************************************************************************)
\* an uncaught exception: Streamlit shows it and the script run ends
Raise(exc) ==
    /\ error' = exc
    /\ pc' = "idle"

\* a widget keeps its value while the value is still one of its options,
\* and falls back to its default otherwise
Widget(value, options, default) == IF value \in options THEN value ELSE default

\* app.py lines 344-347: the Welcome tab's portfolio metrics
welcome_tab ==
    /\ pc = "tab1"
    /\ IF /\ "Amount" \in session_state.spend_data.columns
          /\ "OverallScore" \in session_state.performance_data.columns
       THEN pc' = "tab2" /\ UNCHANGED error
       ELSE Raise("KeyError")
    /\ UNCHANGED <<session_state, upload_vars, trigger, validation,
                   category_vars, risk_vars, relationship_vars>>

\* the columns category_intelligence.show reads from a non-empty filtered table
CategoryPageReads == {"Amount", "Supplier", "Category", "SubCategory", "BusinessUnit", "Date"}

\* pages/category_intelligence.py show(), lines 13-60 and 188
category_intelligence_show ==
    /\ pc = "tab2"
    /\ LET spend_data == Ref("spend_data", session_state.spend_data) IN
       IF ~({"Category", "BusinessUnit", "Date"} \subseteq spend_data.df.columns) THEN
           /\ Raise("KeyError")
           /\ UNCHANGED <<session_state, category_vars>>
       ELSE IF len(spend_data.df) = 0 THEN
           \* dates.min() of no rows is NaT, which st.date_input refuses
           /\ Raise("ValueError")
           /\ UNCHANGED <<session_state, category_vars>>
       ELSE
           LET category == Widget(selected_category, CategoryOptions(spend_data.df),
                                  "All Categories")
               bu == Widget(selected_bu, BusinessUnitOptions(spend_data.df),
                            "All Business Units")
               range == Widget(date_range, DateRangeOptions(spend_data.df),
                               DateRangeDefault(spend_data.df))
               filtered == ApplySpendFilters(spend_data, category, bu, range)
               with_month == AssignColumn(filtered, "Month",
                                          LAMBDA r : strftime_month(r.Date))
           IN  /\ selected_category' = category
               /\ selected_bu' = bu
               /\ date_range' = range
               /\ IF len(filtered.df) = 0 THEN
                      \* st.warning("No data available with the selected filters.")
                      /\ filtered_data' = filtered.df
                      /\ insights' = Some(NoDataInsights)
                      /\ pc' = "tab2_end"
                      /\ UNCHANGED <<session_state, error, figures>>
                  ELSE IF ~(CategoryPageReads \subseteq filtered.df.columns) THEN
                      /\ filtered_data' = filtered.df
                      /\ Raise("KeyError")
                      /\ UNCHANGED <<session_state, insights, figures>>
                  ELSE
                      /\ filtered_data' = with_month.df
                      /\ session_state' = WriteThrough(session_state, with_month)
                      /\ insights' = Some(SpendInsights(with_month.df))
                      \* lines 115-126 and 260-283: fig1 and fig4
                      /\ figures' =
                            <<create_spend_chart(filtered.df,
                                  IF category = "All Categories"
                                  THEN "Category" ELSE "SubCategory"),
                              create_risk_heatmap(with_month.df,
                                  IF category = "All Categories"
                                  THEN "Category" ELSE "SubCategory",
                                  IF bu = "All Business Units"
                                  THEN "BusinessUnit" ELSE "Supplier")>>
                      /\ pc' = "tab2_end"
                      /\ UNCHANGED error
    /\ UNCHANGED <<upload_vars, trigger, validation, risk_vars, relationship_vars>>

(***************************************************************************)
(* Supplier Risk Analysis page (pages/supplier_risk.py).                   *)
(***************************************************************************)
SupplierCategoryOptions(suppliers) == {"All Categories"} \cup unique(suppliers, "Category")
CountryOptions(suppliers) == {"All Countries"} \cup unique(suppliers, "Country")

\* lines 46-47
FilterSupplierCategory(h, category) ==
    IF category # "All Categories"
    THEN Index(h, LAMBDA r : r.Category = category)
    ELSE h

\* lines 49-50
FilterCountry(h, country) ==
    IF country # "All Countries"
    THEN Index(h, LAMBDA r : r.Country = country)
    ELSE h

\* lines 44-50: filtered_suppliers of the page
ApplySupplierFilters(supplier_data, category, country) ==
    FilterCountry(FilterSupplierCategory(copy(supplier_data), category), country)

\* lines 53-54: the rows of the latest quarter (none when there are no rows)
latest_performance(performance_data) ==
    IF len(performance_data) = 0 THEN performance_data
    ELSE LET latest_quarter == Max(unique(performance_data, "Quarter"))
         IN  BooleanIndex(performance_data, LAMBDA r : r.Quarter = latest_quarter)

ScoreColumns == {"OverallScore", "DeliveryScore", "QualityScore", "ResponsivenessScore"}

\* a row of the merge: the left row with the right row's scores, or with NaN
\* scores (OverallScore_isnull, the values held as 0) when no right row matches
MergedRow(l, right) ==
    [c \in (DOMAIN l) \cup ScoreColumns \cup {"OverallScore_isnull"} |->
        IF c \in ScoreColumns THEN (IF right = None THEN 0 ELSE right[1][c])
        ELSE IF c = "OverallScore_isnull" THEN right = None
        ELSE l[c]]

RECURSIVE MergeRows(_, _)
MergeRows(left_rows, right_rows) ==
    IF left_rows = << >> THEN << >>
    ELSE LET l == Head(left_rows)
             matches == SelectSeq(right_rows, LAMBDA r : r.SupplierID = l.SupplierID)
             joined == IF matches = << >>
                       THEN <<MergedRow(l, None)>>
                       ELSE [i \in DOMAIN matches |-> MergedRow(l, Some(matches[i]))]
         IN  joined \o MergeRows(Tail(left_rows), right_rows)

\* the RangeIndex a new DataFrame gets
ResetIndex(rows) == [i \in DOMAIN rows |-> [rows[i] EXCEPT !["idx"] = i - 1]]

\* lines 57-61: filtered_suppliers.merge(latest_performance[...], on="SupplierID", how="left")
merge_left(suppliers, latest) ==
    DataFrame(suppliers.columns \cup ScoreColumns,
              suppliers.numeric \cup ScoreColumns,
              ResetIndex(MergeRows(suppliers.rows, latest.rows)))

\* lines 64-68: a NaN score satisfies neither comparison
FilterScoreRange(h, range) ==
    Index(h, LAMBDA r : /\ ~r.OverallScore_isnull
                        /\ r.OverallScore >= range[1]
                        /\ r.OverallScore <= range[2])

\* lines 155-158: np.random.uniform(1, 10, ...) for each row, in tenths
RiskColumns == {"FinancialRisk", "ESGRisk", "ComplianceRisk", "GeopoliticalRisk"}

RiskDraws ==
    { [FinancialRisk |-> 10, ESGRisk |-> 10, ComplianceRisk |-> 10, GeopoliticalRisk |-> 10],
      [FinancialRisk |-> 80, ESGRisk |-> 60, ComplianceRisk |-> 40, GeopoliticalRisk |-> 20],
      [FinancialRisk |-> 70, ESGRisk |-> 80, ComplianceRisk |-> 40, GeopoliticalRisk |-> 20] }

\* lines 161-166 with 0.2 for the weight of GeopoliticalRisk
RiskScore_geopolitical_doubled(r) ==
    4 * r.FinancialRisk + 3 * r.ESGRisk + 2 * r.ComplianceRisk + 2 * r.GeopoliticalRisk

\* lines 161-166, in hundredths: 0.4, 0.3, 0.2 and 0.1 of scores in tenths
RiskScore(r) ==
    4 * r.FinancialRisk + 3 * r.ESGRisk + 2 * r.ComplianceRisk + 1 * r.GeopoliticalRisk

\* lines 155-166: the five columns are assigned to the object h refers to
AssignRiskColumns(h, draws) ==
    Ref(h.ref,
        [h.df EXCEPT
            !.columns = @ \cup RiskColumns \cup {"RiskScore"},
            !.numeric = @ \cup RiskColumns \cup {"RiskScore"},
            !.rows = [i \in DOMAIN @ |->
                        [c \in (DOMAIN @[i]) \cup RiskColumns \cup {"RiskScore"} |->
                            IF c \in RiskColumns THEN draws[i][c]
                            ELSE IF c = "RiskScore" THEN RiskScore(draws[i])
                            ELSE @[i][c]]]])

(***************************************************************************)
(* Ranking bar charts: a bar is a row with its label y and its measure x   *)
(* (a float).                                                              *)
(***************************************************************************)
\* a + b of two floats
FracAdd(a, b) == Frac(a.num * b.den + b.num * a.den, a.den * b.den)

\* .sort_values(measure, ascending=False): bars of equal measure keep their
\* order
RECURSIVE sort_bars_descending(_)
sort_bars_descending(bars) ==
    IF bars = << >> THEN << >>
    ELSE LET first == CHOOSE i \in DOMAIN bars :
                         /\ \A j \in DOMAIN bars : FracLE(bars[j].x, bars[i].x)
                         /\ \A j \in 1..(i - 1) : FracLT(bars[j].x, bars[i].x)
         IN  <<bars[first]>>
                 \o sort_bars_descending(
                        SubSeq(bars, 1, first - 1) \o SubSeq(bars, first + 1, Len(bars)))

\* the labels of the bars in the order they first appear
RECURSIVE BarLabels(_)
BarLabels(bars) ==
    IF bars = << >> THEN << >>
    ELSE LET before == BarLabels(SubSeq(bars, 1, Len(bars) - 1))
             label == bars[Len(bars)].y
         IN  IF label \in Range(before) THEN before ELSE Append(before, label)

\* the bars of one label are stacked: the label's total
RECURSIVE BarTotal(_, _)
BarTotal(bars, label) ==
    IF bars = << >> THEN Whole(0)
    ELSE IF Head(bars).y = label THEN FracAdd(Head(bars).x, BarTotal(Tail(bars), label))
    ELSE BarTotal(Tail(bars), label)

RECURSIVE TotalAscending(_, _)
TotalAscending(labels, totals) ==
    IF labels = << >> THEN << >>
    ELSE LET first == CHOOSE i \in DOMAIN labels :
                         /\ \A j \in DOMAIN labels :
                               FracLE(totals[labels[i]], totals[labels[j]])
                         /\ \A j \in 1..(i - 1) :
                               FracLT(totals[labels[i]], totals[labels[j]])
         IN  <<labels[first]>>
                 \o TotalAscending(
                        SubSeq(labels, 1, first - 1) \o SubSeq(labels, first + 1, Len(labels)),
                        totals)

\* update_layout(yaxis={'categoryorder': 'total ascending'}): the labels of
\* the y axis from its bottom to its top, by the total of each label's bars
categoryorder_total_ascending(bars) ==
    LET labels == BarLabels(bars)
    IN  TotalAscending(labels, [l \in Range(labels) |-> BarTotal(bars, l)])

\* a horizontal px.bar of the bars with that layout
bar_chart(title, bars) ==
    [type |-> "bar", title |-> title, data |-> bars,
     yaxis |-> categoryorder_total_ascending(bars)]

(***************************************************************************)
(* create_supplier_chart (utils/visualizations.py, lines 64-113).          *)
(***************************************************************************)
\* the SupplierID values of the model in the order Python sorts them
SupplierIDOf(i) == IF i < 10 THEN "S000" \o ToString(i) ELSE "S00" \o ToString(i)

SupplierIDOrder == [i \in 1..MaxNames |-> SupplierIDOf(i)]

IDPos(id) == CHOOSE i \in DOMAIN SupplierIDOrder : SupplierIDOrder[i] = id

KeyPos(k) == CHOOSE i \in DOMAIN KeyOrder : KeyOrder[i] = k

\* lines 77-81: performance_data.merge(supplier_data[["SupplierID",
\* "SupplierName", "Category"]], on="SupplierID", how="left"); a performance
\* row no supplier row matches gets NaN for SupplierName and Category
RECURSIVE chart_merged_data(_, _)
chart_merged_data(performance_rows, supplier_rows) ==
    IF performance_rows = << >> THEN << >>
    ELSE LET p == Head(performance_rows)
             matches == SelectSeq(supplier_rows, LAMBDA s : s.SupplierID = p.SupplierID)
             named(name, category) ==
                 [c \in (DOMAIN p) \cup {"SupplierName", "Category"} |->
                     IF c = "SupplierName" THEN name
                     ELSE IF c = "Category" THEN category
                     ELSE p[c]]
             joined == IF matches = << >>
                       THEN <<named(NaN, NaN)>>
                       ELSE [i \in DOMAIN matches |->
                                named(matches[i].SupplierName, matches[i].Category)]
         IN  joined \o chart_merged_data(Tail(performance_rows), supplier_rows)

\* the group keys in ascending order: by SupplierID, then SupplierName, then
\* Category
GroupKeyLE(a, b) ==
    \/ IDPos(a[1]) < IDPos(b[1])
    \/ /\ a[1] = b[1]
       /\ \/ KeyPos(a[2]) < KeyPos(b[2])
          \/ a[2] = b[2] /\ KeyPos(a[3]) <= KeyPos(b[3])

RECURSIVE SortedGroupKeys(_)
SortedGroupKeys(keys) ==
    IF keys = {} THEN << >>
    ELSE LET least == CHOOSE k \in keys : \A other \in keys : GroupKeyLE(k, other)
         IN  <<least>> \o SortedGroupKeys(keys \ {least})

RECURSIVE SumMetric(_, _)
SumMetric(rows, metric) ==
    IF rows = << >> THEN 0 ELSE Head(rows)[metric] + SumMetric(Tail(rows), metric)

\* line 84 as groupby("SupplierID"): one row for each SupplierID, its
\* SupplierName and Category those of its first row, NaN included
supplier_chart_groups_by_id(merged, metric) ==
    LET ids == SortedGroupKeys({<<merged[i].SupplierID, "Acme", "Acme">> : i \in DOMAIN merged})
    IN  [i \in DOMAIN ids |->
            LET members == SelectSeq(merged, LAMBDA r : r.SupplierID = ids[i][1])
            IN  [SupplierID |-> ids[i][1], y |-> members[1].SupplierName,
                 Category |-> members[1].Category,
                 x |-> Frac(SumMetric(members, metric), Len(members))]]

\* line 84: merged_data.groupby(["SupplierID", "SupplierName", "Category"])
\* [metric].mean().reset_index(): one row for each key without a NaN, in
\* ascending key order
supplier_chart_groups(merged, metric) ==
    LET key(r) == <<r.SupplierID, r.SupplierName, r.Category>>
        keys == SortedGroupKeys({key(merged[i]) : i \in
                    {j \in DOMAIN merged : NaN \notin Range(key(merged[j]))}})
    IN  [i \in DOMAIN keys |->
            LET members == SelectSeq(merged, LAMBDA r : key(r) = keys[i])
            IN  [SupplierID |-> keys[i][1], y |-> keys[i][2], Category |-> keys[i][3],
                 x |-> Frac(SumMetric(members, metric), Len(members))]]

\* line 91: df_grouped.head(15)
TopPerformance == 15

\* create_supplier_chart with head(15) taken before the sort of line 87
create_supplier_chart_head_first(performance_data, supplier_data, metric) ==
    bar_chart(metric,
              sort_bars_descending(
                  head(supplier_chart_groups(
                           chart_merged_data(performance_data.rows, supplier_data.rows),
                           metric),
                       TopPerformance)))

\* create_supplier_chart(performance_data, supplier_data, metric), lines 64-113
create_supplier_chart(performance_data, supplier_data, metric) ==
    bar_chart(metric,
              head(sort_bars_descending(
                       supplier_chart_groups(
                           chart_merged_data(performance_data.rows, supplier_data.rows),
                           metric)),
                   TopPerformance))

(***************************************************************************)
(* Risk rankings and alerts (pages/supplier_risk.py, lines 203-327).       *)
(***************************************************************************)
\* line 203: .head(10)
TopRisk == 10

\* the rows of supplier_performance as bars of their RiskScore
RiskBars(rows) ==
    [i \in DOMAIN rows |->
        [SupplierID |-> rows[i].SupplierID, y |-> rows[i].SupplierName,
         Category |-> rows[i].Category, x |-> Whole(rows[i].RiskScore)]]

\* lines 203-216: fig7, the top 10 suppliers by RiskScore
high_risk_chart(supplier_performance_df) ==
    bar_chart("RiskScore",
              head(sort_bars_descending(RiskBars(supplier_performance_df.rows)), TopRisk))

\* lines 294-316 with elif for the second and third test
risk_alerts_first_only(selected_supplier) ==
    IF selected_supplier.FinancialRisk > 70 THEN <<"Financial">>
    ELSE IF selected_supplier.ESGRisk > 70 THEN <<"ESG">>
    ELSE IF selected_supplier.DeliveryScore < 60 THEN <<"Performance">>
    ELSE << >>

\* lines 292-316: the types of the alerts, in the order they are appended
\* (scores in tenths)
risk_alerts(selected_supplier) ==
    (IF selected_supplier.FinancialRisk > 70 THEN <<"Financial">> ELSE << >>)
    \o (IF selected_supplier.ESGRisk > 70 THEN <<"ESG">> ELSE << >>)
    \o (IF selected_supplier.DeliveryScore < 60 THEN <<"Performance">> ELSE << >>)

\* lines 318-327: st.success when there is no alert, one st.warning for each
\* alert otherwise
alert_messages(alerts) ==
    IF Len(alerts) = 0
    THEN <<[kind |-> "success", text |-> "No significant risk alerts"]>>
    ELSE [i \in DOMAIN alerts |-> [kind |-> "warning", text |-> alerts[i]]]

\* lines 230 and 288-327: the first row of the selected SupplierID and what
\* the page says of it
risk_profile(supplier_performance_df, selected_supplier_id_risk) ==
    LET selected_supplier ==
            SelectSeq(supplier_performance_df.rows,
                      LAMBDA r : r.SupplierID = selected_supplier_id_risk)[1]
    IN  [selected_supplier |-> selected_supplier,
         alerts |-> risk_alerts(selected_supplier),
         messages |-> alert_messages(risk_alerts(selected_supplier))]

\* lines 222-227: the selectbox offers every SupplierID of the table; what the
\* page says for each choice
risk_profiles(supplier_performance_df) ==
    [selected_supplier_id_risk \in unique(supplier_performance_df, "SupplierID") |->
        risk_profile(supplier_performance_df, selected_supplier_id_risk)]

\* pages/supplier_risk.py show(), lines 14-327
supplier_risk_show ==
    /\ pc = "tab3"
    /\ LET supplier_data == Ref("supplier_data", session_state.supplier_data)
           performance_data == session_state.performance_data
       IN
       IF \/ ~({"Category", "Country", "SupplierID"} \subseteq supplier_data.df.columns)
          \/ ~({"Quarter", "SupplierID"} \cup ScoreColumns \subseteq performance_data.columns)
       THEN
           /\ Raise("KeyError")
           /\ UNCHANGED <<session_state, risk_vars>>
       ELSE
           LET category == Widget(risk_category,
                                  SupplierCategoryOptions(supplier_data.df), "All Categories")
               country == Widget(selected_country,
                                 CountryOptions(supplier_data.df), "All Countries")
               suppliers == ApplySupplierFilters(supplier_data, category, country)
               merged == Ref("local", merge_left(suppliers.df,
                                                 latest_performance(performance_data)))
               in_range == FilterScoreRange(merged, score_range)
               \* lines 80-92: fig1 to fig4
               dashboard ==
                   [metric \in ScoreColumns |->
                       create_supplier_chart(latest_performance(performance_data),
                                             suppliers.df, metric)]
           IN  /\ risk_category' = category
               /\ selected_country' = country
               /\ filtered_suppliers' = suppliers.df
               /\ UNCHANGED score_range
               /\ IF len(in_range.df) = 0 THEN
                      \* st.warning("No suppliers match the selected filters.")
                      /\ supplier_performance' = in_range.df
                      /\ risk_view' = None
                      /\ pc' = "tab3_end"
                      /\ UNCHANGED <<session_state, error>>
                  ELSE IF "SupplierName" \notin supplier_data.df.columns THEN
                      \* visualizations.py line 78, reached from line 80:
                      \* supplier_data[['SupplierID', 'SupplierName', 'Category']]
                      /\ supplier_performance' = in_range.df
                      /\ risk_view' = None
                      /\ Raise("KeyError")
                      /\ UNCHANGED session_state
                  ELSE IF "Comments" \notin performance_data.columns THEN
                      \* line 146, after the four dashboard charts are drawn
                      /\ supplier_performance' = in_range.df
                      /\ risk_view' = Some([dashboard |-> dashboard,
                                            high_risk |-> None,
                                            profiles |-> None])
                      /\ Raise("KeyError")
                      /\ UNCHANGED session_state
                  ELSE
                      \E draws \in [DOMAIN in_range.df.rows -> RiskDraws] :
                        LET with_risk == AssignRiskColumns(in_range, draws) IN
                        /\ supplier_performance' = with_risk.df
                        /\ session_state' = WriteThrough(session_state, with_risk)
                        \* line 178: px.scatter(size="AnnualRevenue") refuses a
                        \* name that is not a column with a ValueError
                        /\ IF "AnnualRevenue" \notin with_risk.df.columns
                           THEN /\ risk_view' = Some([dashboard |-> dashboard,
                                                      high_risk |-> None,
                                                      profiles |-> None])
                                /\ Raise("ValueError")
                           ELSE /\ risk_view' =
                                      Some([dashboard |-> dashboard,
                                            high_risk |-> Some(high_risk_chart(with_risk.df)),
                                            profiles |-> Some(risk_profiles(with_risk.df))])
                                /\ pc' = "tab3_end"
                                /\ UNCHANGED error
    /\ UNCHANGED <<upload_vars, trigger, validation, category_vars, relationship_vars>>

(***************************************************************************)
(* Supplier Relationship Management page (pages/supplier_relationship.py). *)
(***************************************************************************)
\* the columns show() reads from each table, given the rows it found for the
\* selected supplier
RelationshipReadsOk(state, supplier_spend, supplier_history, supplier_contracts) ==
    /\ {"Category", "City", "Country", "ContactName", "ContactEmail",
        "ContactPhone", "RelationshipStartDate"} \subseteq state.supplier_data.columns
    /\ {"Quarter", "SupplierID"} \subseteq state.performance_data.columns
    /\ {"Supplier", "Amount"} \subseteq state.spend_data.columns
    /\ {"SupplierID", "Status"} \subseteq state.contract_data.columns
    /\ len(supplier_history) > 0 =>
          ScoreColumns \cup {"Comments"} \subseteq state.performance_data.columns
    /\ len(supplier_spend) > 0 =>
          {"Category", "Date", "BusinessUnit", "InvoiceID", "POID"}
              \subseteq state.spend_data.columns
    /\ len(supplier_contracts) > 0 =>
          {"ContractID", "ContractType", "StartDate", "EndDate", "Value",
           "AutoRenewal", "NoticePeriodDays"} \subseteq state.contract_data.columns

\* (all_suppliers_spend <= total_spend).mean() * 100
spend_percentile_of(spend_data, total_spend) ==
    LET all_suppliers_spend == groupby_sum(spend_data, "Supplier")
    IN  Percent(Cardinality({i \in DOMAIN all_suppliers_spend :
                               all_suppliers_spend[i].Amount <= total_spend}),
                Len(all_suppliers_spend))

\* lines 62-63 and 470-471: the supplier's spend, 0 without spend rows
total_spend_of(spend_data, supplier_name) ==
    LET spend == BooleanIndex(spend_data, LAMBDA r : r.Supplier = supplier_name)
    IN  IF len(spend) > 0 THEN sum(spend) ELSE 0

\* lines 83-89: the Supplier Tier metric
supplier_tier(spend_data, supplier_name) ==
    IF len(BooleanIndex(spend_data, LAMBDA r : r.Supplier = supplier_name)) > 0 THEN
        LET spend_percentile ==
                spend_percentile_of(spend_data, total_spend_of(spend_data, supplier_name))
        IN  [spend_percentile |-> Some(spend_percentile),
             tier |-> IF FracLE(Whole(80), spend_percentile) THEN "Strategic"
                      ELSE IF FracLE(Whole(50), spend_percentile) THEN "Key"
                      ELSE "Standard"]
    ELSE [spend_percentile |-> None, tier |-> "Unknown"]

\* lines 466-486: one row of segmentation_data for each supplier
segmentation_data(supplier_data, spend_data, selected_supplier_id) ==
    [i \in DOMAIN supplier_data.rows |->
        LET supplier == supplier_data.rows[i]
            total_spend == total_spend_of(spend_data, supplier.SupplierName)
        IN  [SupplierID |-> supplier.SupplierID,
             SupplierName |-> supplier.SupplierName,
             TotalSpend |-> total_spend,
             SpendPercentile |->
                 IF total_spend > 0 THEN spend_percentile_of(spend_data, total_spend)
                 ELSE Whole(0),
             IsSelected |-> supplier.SupplierID = selected_supplier_id]]

\* pages/supplier_relationship.py show(), lines 13-397
supplier_relationship_show ==
    /\ pc = "tab4"
    /\ LET supplier_data == session_state.supplier_data
           spend_data == Ref("spend_data", session_state.spend_data)
       IN
       IF ~({"SupplierID", "SupplierName"} \subseteq supplier_data.columns) THEN
           /\ Raise("KeyError")
           /\ UNCHANGED <<session_state, profile>>
       ELSE IF len(supplier_data) = 0 THEN
           \* supplier_data[...].iloc[0] of no rows
           /\ Raise("IndexError")
           /\ UNCHANGED <<session_state, profile>>
       ELSE
           \E selected_supplier_id \in unique(supplier_data, "SupplierID") :
             LET details == BooleanIndex(supplier_data,
                               LAMBDA r : r.SupplierID = selected_supplier_id).rows[1]
                 supplier_spend ==
                     IF "Supplier" \in spend_data.df.columns
                     THEN Index(spend_data, LAMBDA r : r.Supplier = details.SupplierName)
                     ELSE Index(spend_data, LAMBDA r : FALSE)
                 supplier_history ==
                     IF "SupplierID" \in session_state.performance_data.columns
                     THEN BooleanIndex(session_state.performance_data,
                                       LAMBDA r : r.SupplierID = selected_supplier_id)
                     ELSE BooleanIndex(session_state.performance_data, LAMBDA r : FALSE)
                 supplier_contracts ==
                     IF "SupplierID" \in session_state.contract_data.columns
                     THEN BooleanIndex(session_state.contract_data,
                                       LAMBDA r : r.SupplierID = selected_supplier_id)
                     ELSE BooleanIndex(session_state.contract_data, LAMBDA r : FALSE)
                 \* line 218: supplier_spend["Month"] = ...
                 with_month ==
                     IF len(supplier_spend.df) > 0 /\ "Date" \in supplier_spend.df.columns
                     THEN AssignColumn(supplier_spend, "Month",
                                       LAMBDA r : strftime_month(r.Date))
                     ELSE supplier_spend
             IN  IF ~RelationshipReadsOk(session_state, supplier_spend.df,
                                         supplier_history, supplier_contracts)
                 THEN
                     /\ Raise("KeyError")
                     /\ UNCHANGED <<session_state, profile>>
                 ELSE
                     /\ session_state' = WriteThrough(session_state, with_month)
                     /\ profile' =
                          Some([selected_supplier_id |-> selected_supplier_id,
                                SupplierName |-> details.SupplierName,
                                total_spend |->
                                    total_spend_of(spend_data.df, details.SupplierName),
                                tier |-> supplier_tier(spend_data.df, details.SupplierName),
                                segmentation |->
                                    segmentation_data(supplier_data, spend_data.df,
                                                      selected_supplier_id)])
                     /\ pc' = "tab4_end"
                     /\ UNCHANGED error
    /\ UNCHANGED <<upload_vars, trigger, validation, category_vars, risk_vars>>

(***************************************************************************)
(* User interactions.  Each one changes a widget and starts a script run   *)
(* from the top (the session-state initialisation of lines 119-126 does    *)
(* nothing once the keys exist).                                           *)
(***************************************************************************)
\* the page-local tables of a script run that has not yet reached their page
NoFrame == DataFrame({}, {}, << >>)

\* app.py lines 409-417: show() of a page returns, and the tables and
\* figures it held are gone with it; the next tab's page follows
show_returns ==
    /\ pc \in {"tab2_end", "tab3_end", "tab4_end"}
    /\ pc' = CASE pc = "tab2_end" -> "tab3"
              [] pc = "tab3_end" -> "tab4"
              [] pc = "tab4_end" -> "idle"
    /\ filtered_data' = NoFrame
    /\ filtered_suppliers' = NoFrame
    /\ supplier_performance' = NoFrame
    /\ risk_view' = None
    /\ insights' = None
    /\ figures' = << >>
    /\ profile' = None
    /\ UNCHANGED <<session_state, upload_vars, trigger, validation, error,
                   selection_vars>>

StartRun(what) ==
    /\ pc = "idle"
    /\ pc' = "upload"
    /\ trigger' = what
    /\ error' = "none"
    /\ validation' = None
    /\ filtered_data' = NoFrame
    /\ filtered_suppliers' = NoFrame
    /\ supplier_performance' = NoFrame
    /\ risk_view' = None
    /\ insights' = None
    /\ figures' = << >>
    /\ profile' = None

\* the uploader's label holds the data type, so picking another data type
\* gives a new, empty uploader
SelectDataType(dt) ==
    /\ dt # data_type
    /\ StartRun("other")
    /\ data_type' = dt
    /\ uploaded_file' = None
    /\ UNCHANGED <<session_state, reset_clicked, selection_vars>>

UploadFile(file) ==
    /\ file_uploader_accepts(file)
    /\ uploaded_file # Some(file)
    /\ StartRun("other")
    /\ uploaded_file' = Some(file)
    /\ UNCHANGED <<session_state, data_type, reset_clicked, selection_vars>>

RemoveFile ==
    /\ uploaded_file # None
    /\ StartRun("other")
    /\ uploaded_file' = None
    /\ UNCHANGED <<session_state, data_type, reset_clicked, selection_vars>>

ClickReset ==
    /\ StartRun("reset")
    /\ reset_clicked' = TRUE
    /\ UNCHANGED <<session_state, data_type, uploaded_file, selection_vars>>

\* the user changes the filters of the Category Intelligence page
SelectSpendFilters ==
    /\ len(session_state.spend_data) > 0
    /\ \E category \in CategoryOptions(session_state.spend_data),
          bu \in BusinessUnitOptions(session_state.spend_data),
          range \in DateRangeOptions(session_state.spend_data) :
            /\ <<category, bu, range>> # <<selected_category, selected_bu, date_range>>
            /\ selected_category' = category
            /\ selected_bu' = bu
            /\ date_range' = range
    /\ StartRun("other")
    /\ UNCHANGED <<session_state, upload_vars, risk_category, selected_country,
                   score_range>>

(***************************************************************************)
(* The application: a session from its first script run.                   *)
(***************************************************************************)
\* the slider's default value=(5.0, 10.0), in tenths
ScoreRangeDefault == <<50, 100>>

WidgetDefaults ==
    /\ data_type = "Spend Data"
    /\ uploaded_file = None
    /\ reset_clicked = FALSE
    /\ validation = None
    /\ error = "none"
    /\ filtered_data = NoFrame
    /\ filtered_suppliers = NoFrame
    /\ supplier_performance = NoFrame
    /\ risk_view = None
    /\ insights = None
    /\ figures = << >>
    /\ profile = None

\* lines 119-126 of the first script run have filled the Data Store
Init ==
    /\ session_state \in MockSessionStates
    /\ WidgetDefaults
    /\ pc = "upload"
    /\ trigger = "other"
    /\ selected_category = "All Categories"
    /\ selected_bu = "All Business Units"
    /\ date_range = DateRangeDefault(session_state.spend_data)
    /\ risk_category = "All Categories"
    /\ selected_country = "All Countries"
    /\ score_range = ScoreRangeDefault

ScriptRun ==
    \/ UploadHandler
    \/ ResetButton
    \/ welcome_tab
    \/ category_intelligence_show
    \/ supplier_risk_show
    \/ supplier_relationship_show
    \/ show_returns

Next ==
    \/ \E dt \in DataTypes : SelectDataType(dt)
    \/ \E file \in UploadCatalog : UploadFile(file)
    \/ RemoveFile
    \/ ClickReset
    \/ SelectSpendFilters
    \/ ScriptRun

Spec == Init /\ [][Next]_vars

(***************************************************************************)
(* The Validator on its own: one upload handler run for every file of a    *)
(* bounded family and every declared data type.                            *)
(***************************************************************************)
SeqsUpTo(S, n) == UNION {[1..k -> S] : k \in 0..n}

\* spend rows whose Supplier cell may be empty and whose Amount cell may be text
ValidatorSpendRows ==
    SeqsUpTo({SpendRawRow(supplier, "HVAC", "Commercial", 0, amount) :
                 supplier \in {"Acme", ""}, amount \in {"100", "n/a"}},
             MaxUploadRows)

\* the header is the required columns of some data type with any of them
\* left out; a full spend header comes with every choice of rows
ValidatorContents ==
    { [columns |-> RequiredSet(dt) \ absent,
       rows |-> RestrictRows(RawRowsOf(dt), RequiredSet(dt) \ absent)] :
         dt \in DataTypes, absent \in SUBSET RequiredSet("Spend Data")
                                      \cup SUBSET RequiredSet("Supplier Master Data")
                                      \cup SUBSET RequiredSet("Contract Data")
                                      \cup SUBSET RequiredSet("Performance Data") }
    \cup
    { [columns |-> RequiredSet("Spend Data"), rows |-> rows] :
         rows \in ValidatorSpendRows }

ValidatorFiles ==
    { UploadedFile(<<"upload", ext>>, format, content.columns, content.rows) :
        ext \in {".csv", ".xlsx", ".CSV"},
        format \in {"csv", "excel"},
        content \in ValidatorContents }

InitValidate ==
    /\ session_state \in MockSessionStates
    /\ data_type \in DataTypes
    /\ uploaded_file \in {Some(file) : file \in ValidatorFiles}
    /\ reset_clicked = FALSE
    /\ validation = None
    /\ error = "none"
    /\ filtered_data = NoFrame
    /\ filtered_suppliers = NoFrame
    /\ supplier_performance = NoFrame
    /\ risk_view = None
    /\ insights = None
    /\ figures = << >>
    /\ profile = None
    /\ pc = "upload"
    /\ trigger = "other"
    /\ selected_category = "All Categories"
    /\ selected_bu = "All Business Units"
    /\ date_range = DateRangeDefault(session_state.spend_data)
    /\ risk_category = "All Categories"
    /\ selected_country = "All Countries"
    /\ score_range = ScoreRangeDefault

NextValidate == UploadHandler

SpecValidate == InitValidate /\ [][NextValidate]_vars

(***************************************************************************)
(* The Filter Engine on its own: the two filtering pages rendered for      *)
(* every Data Store table of a bounded family and every widget selection.  *)
(***************************************************************************)
WithIndex(rows) ==
    [i \in DOMAIN rows |->
        [c \in (DOMAIN rows[i]) \cup {"idx"} |-> IF c = "idx" THEN i - 1 ELSE rows[i][c]]]

FilterSpendRowValues ==
    { [Supplier |-> "Acme", Category |-> category,
       SubCategory |-> subcategories(category), BusinessUnit |-> bu,
       Date |-> date, Amount |-> 100] :
        category \in {"HVAC", "Electrical"},
        bu \in {"Commercial", "Healthcare"},
        date \in {0, 1, MaxTick} }

\* the spend tables an accepted upload can leave in the Data Store (an
\* accepted spend table has at least one row)
FilterSpendTables ==
    { DataFrame(RequiredSet("Spend Data"), {"Amount"}, WithIndex(rows)) :
        rows \in SeqsUpTo(FilterSpendRowValues, MaxFilterRows) \ {<< >>} }

\* a category and a country on each of two suppliers, every pair of a
\* category and a country among them
FilterSupplierRowValues ==
    { [SupplierID |-> r[1], SupplierName |-> "Acme", Category |-> r[2], Country |-> r[3]] :
        r \in { <<"S0001", "HVAC", "USA">>, <<"S0002", "HVAC", "France">>,
                <<"S0001", "Electrical", "France">>, <<"S0002", "Electrical", "USA">> } }

FilterSupplierTables ==
    { DataFrame(MockSupplierColumns, {"Latitude", "Longitude", "AnnualRevenue"},
                WithIndex(rows)) :
        rows \in SeqsUpTo(FilterSupplierRowValues, MaxFilterRows) }

\* the sample performance table, and a table in which S0002 has no record in
\* the latest quarter and S0003, a supplier of no supplier table, has one
FilterPerformanceTables ==
    get_mock_performance_data
    \cup
    { DataFrame(MockPerformanceColumns,
        {"DeliveryScore", "QualityScore", "ResponsivenessScore", "OverallScore"},
        <<[idx |-> 0, SupplierID |-> "S0003", Quarter |-> 8, DeliveryScore |-> 95,
           QualityScore |-> 95, ResponsivenessScore |-> 95, OverallScore |-> 95],
          [idx |-> 1, SupplierID |-> "S0002", Quarter |-> 7, DeliveryScore |-> 80,
           QualityScore |-> 80, ResponsivenessScore |-> 80, OverallScore |-> 80],
          [idx |-> 2, SupplierID |-> "S0001", Quarter |-> 8, DeliveryScore |-> 90,
           QualityScore |-> 85, ResponsivenessScore |-> 75, OverallScore |-> 85]>>) }

\* slider positions between 1.0 and 10.0, in tenths
ScoreRangeOptions ==
    {r \in {10, 70, 100} \X {10, 70, 100} : r[1] <= r[2]}

InitFilter ==
    /\ \E mock \in MockSessionStates :
        \/ /\ session_state \in {[mock EXCEPT !.spend_data = t] : t \in FilterSpendTables}
           /\ selected_category \in CategoryOptions(session_state.spend_data)
           /\ selected_bu \in BusinessUnitOptions(session_state.spend_data)
           /\ date_range \in DateRangeOptions(session_state.spend_data)
           /\ risk_category = "All Categories"
           /\ selected_country = "All Countries"
           /\ score_range = ScoreRangeDefault
           /\ pc = "tab2"
        \/ /\ session_state \in {[mock EXCEPT !.supplier_data = t, !.performance_data = p] :
                                    t \in FilterSupplierTables, p \in FilterPerformanceTables}
           /\ selected_category = "All Categories"
           /\ selected_bu = "All Business Units"
           /\ date_range = DateRangeDefault(session_state.spend_data)
           /\ risk_category \in SupplierCategoryOptions(session_state.supplier_data)
           /\ selected_country \in CountryOptions(session_state.supplier_data)
           /\ score_range \in ScoreRangeOptions
           /\ pc = "tab3"
    /\ WidgetDefaults
    /\ trigger = "other"

NextFilter == category_intelligence_show \/ supplier_risk_show

SpecFilter == InitFilter /\ [][NextFilter]_vars

(***************************************************************************)
(* The insight computations on their own: the three pages rendered for     *)
(* Data Stores whose spend table is built to reach each rule.              *)
(***************************************************************************)
InsightRow(i, supplier, date, amount) ==
    MockSpendRow(i - 1, supplier, "HVAC", "Commercial", date, amount)

InsightTable(rows) == DataFrame(MockSpendColumns, {"Amount"}, rows)

\* one row for each of n suppliers, and one more row for the first of them;
\* amounts may be credits
ConcentrationTables ==
    UNION { { InsightTable(
                  [i \in 1..n |-> InsightRow(i, SupplierNameOf(i), 0, amounts[i])]
                  \o (IF again THEN <<InsightRow(n + 1, SupplierNameOf(1), 0, 100)>>
                      ELSE << >>)) :
                again \in BOOLEAN, amounts \in [1..n -> {-100, 0, 100, 700}] } :
            n \in 1..MaxSuppliers }

\* the first tick of a year-month period
MonthStart(m) == m * TicksPerDay * DaysPerMonth

TrendAmounts == {-1000, 0, 500, 800, 950, 1000, 1050, 1200}

\* one row in each period of a set of periods: the first and the last period
\* with an amount of TrendAmounts, the periods between them with 500; the
\* amount of the last period may come in two rows
TrendTables ==
    { InsightTable(
        LET months == SortedInts(periods)
            amount(i) == IF i = 1 THEN first
                         ELSE IF i = Len(months) THEN last
                         ELSE 500
        IN  [i \in DOMAIN months |->
                InsightRow(i, "Acme", MonthStart(months[i]),
                           IF split /\ i = Len(months) /\ i > 1
                           THEN amount(i) - 50 ELSE amount(i))]
            \o (IF split /\ Len(months) > 1
                THEN <<InsightRow(Len(months) + 1, "Acme",
                                  MonthStart(months[Len(months)]), 50)>>
                ELSE << >>)) :
        periods \in SUBSET (0..MaxMonth) \ {{}},
        first \in TrendAmounts, last \in TrendAmounts, split \in BOOLEAN }

\* n transactions of one amount spread over s suppliers
OpportunityTables ==
    { InsightTable([i \in 1..n |->
          InsightRow(i, SupplierNameOf(((i - 1) % s) + 1), 0, amount)]) :
        n \in {1, 4, 10, 101, MaxTransactions},
        s \in {1, 2, 3, 25},
        amount \in {500, 900, 2000, 300000, 600000} }

InsightSpendTables == ConcentrationTables \cup TrendTables \cup OpportunityTables

\* a supplier master whose suppliers are the first two of the spend tables
InsightSupplierTable ==
    DataFrame(MockSupplierColumns, {"Latitude", "Longitude", "AnnualRevenue"},
        <<[idx |-> 0, SupplierID |-> "S0001", SupplierName |-> SupplierNameOf(1),
           Category |-> "HVAC", Country |-> "USA"],
          [idx |-> 1, SupplierID |-> "S0002", SupplierName |-> SupplierNameOf(2),
           Category |-> "HVAC", Country |-> "USA"]>>)

\* an accepted supplier upload that has its header and no rows
EmptySupplierTable ==
    DataFrame(MockSupplierColumns, {"Latitude", "Longitude", "AnnualRevenue"}, << >>)

InitInsights ==
    /\ \E mock \in MockSessionStates :
        \/ session_state \in
              {[mock EXCEPT !.spend_data = t, !.supplier_data = InsightSupplierTable] :
                  t \in InsightSpendTables}
        \/ session_state = [mock EXCEPT !.supplier_data = EmptySupplierTable]
    /\ WidgetDefaults
    /\ pc = "tab2"
    /\ trigger = "other"
    /\ selected_category = "All Categories"
    /\ selected_bu = "All Business Units"
    /\ date_range = DateRangeDefault(session_state.spend_data)
    /\ risk_category = "All Categories"
    /\ selected_country = "All Countries"
    \* the slider at 10.0 - 10.0
    /\ score_range = <<100, 100>>

NextInsights ==
    \/ category_intelligence_show
    \/ supplier_risk_show
    \/ supplier_relationship_show
    \/ show_returns

SpecInsights == InitInsights /\ [][NextInsights]_vars

(***************************************************************************)
(* The two chart functions on their own: fig1 and fig4 of the Category     *)
(* Intelligence page built of drawn filtered tables, the table without     *)
(* rows included.                                                          *)
(***************************************************************************)
ChartRow(i, supplier, category, subcategory, bu, amount) ==
    [idx |-> i - 1, Supplier |-> supplier, Category |-> category,
     SubCategory |-> subcategory, BusinessUnit |-> bu, Date |-> 0, Amount |-> amount]

\* the category and sub-category of a row; an uploaded row may have an empty
\* SubCategory cell
ChartCategories ==
    {<<"HVAC", "Ductwork">>, <<"HVAC", "Controls">>, <<"HVAC", NaN>>,
     <<"Electrical", "Lighting">>}

\* up to MaxChartRows rows over two categories, two business units and two
\* suppliers
MatrixTables ==
    UNION { { InsightTable([i \in 1..n |->
                  ChartRow(i, supplier[i], category[i][1], category[i][2], bu[i], 100 * i)]) :
                supplier \in [1..n -> {"Acme", SupplierNameOf(1)}],
                category \in [1..n -> ChartCategories],
                bu \in [1..n -> {"Commercial", "Healthcare"}] } :
            n \in 0..MaxChartRows }

\* the amount of the row of category i of n in each of four arrangements
GroupAmount(pattern, i, n) ==
    CASE pattern = "ascending" -> 100 * i
      [] pattern = "descending" -> 100 * (n + 1 - i)
      [] pattern = "equal" -> 100
      [] OTHER -> 100 * ((7 * i) % 5)

\* one row for each of n categories, and one more row for one of them
DistributionTables ==
    UNION { { InsightTable(
                  [i \in 1..n |->
                      ChartRow(i, "Acme", GroupNameOf(i), "Controls", "Commercial",
                               GroupAmount(pattern, i, n))]
                  \o (IF again = 0 THEN << >>
                      ELSE <<ChartRow(n + 1, "Acme", GroupNameOf(again), "Controls",
                                      "Commercial", 350)>>)) :
                pattern \in {"ascending", "descending", "equal", "mixed"},
                again \in 0..n } :
            n \in 1..MaxGroups }

\* lines 43-49: the rows of a table the two selectboxes keep
SelectedRows(table, category, bu) ==
    [table EXCEPT !.rows =
        SelectSeq(@, LAMBDA r : /\ category # "All Categories" => r.Category = category
                                /\ bu # "All Business Units" => r.BusinessUnit = bu)]

InitCharts ==
    /\ session_state \in MockSessionStates
    /\ data_type = "Spend Data"
    /\ uploaded_file = None
    /\ reset_clicked = FALSE
    /\ validation = None
    /\ error = "none"
    /\ filtered_suppliers = NoFrame
    /\ supplier_performance = NoFrame
    /\ risk_view = None
    /\ insights = None
    /\ figures = << >>
    /\ profile = None
    /\ pc = "fig1"
    /\ trigger = "other"
    /\ selected_category \in {"All Categories", "HVAC"}
    /\ selected_bu \in {"All Business Units", "Commercial"}
    /\ date_range = DateRangeDefault(session_state.spend_data)
    /\ risk_category = "All Categories"
    /\ selected_country = "All Countries"
    /\ score_range = ScoreRangeDefault
    /\ \E table \in MatrixTables \cup DistributionTables :
          filtered_data = SelectedRows(table, selected_category, selected_bu)

\* lines 116-125: fig1
spend_distribution_chart ==
    /\ pc = "fig1"
    /\ figures' = <<create_spend_chart(filtered_data,
                        IF selected_category = "All Categories"
                        THEN "Category" ELSE "SubCategory")>>
    /\ pc' = "fig4"
    /\ UNCHANGED <<session_state, upload_vars, trigger, validation, error,
                   selected_category, selected_bu, date_range, filtered_data,
                   insights, risk_vars, relationship_vars>>

\* lines 260-283: fig4
spend_distribution_matrix ==
    /\ pc = "fig4"
    /\ LET fig4 == create_risk_heatmap(filtered_data,
                        IF selected_category = "All Categories"
                        THEN "Category" ELSE "SubCategory",
                        IF selected_bu = "All Business Units"
                        THEN "BusinessUnit" ELSE "Supplier")
       IN  IF fig4.type = "ValueError"
           THEN Raise("ValueError") /\ UNCHANGED figures
           ELSE /\ figures' = Append(figures, fig4)
                /\ pc' = "idle"
                /\ UNCHANGED error
    /\ UNCHANGED <<session_state, upload_vars, trigger, validation,
                   selected_category, selected_bu, date_range, filtered_data,
                   insights, risk_vars, relationship_vars>>

NextCharts == spend_distribution_chart \/ spend_distribution_matrix

SpecCharts == InitCharts /\ [][NextCharts]_vars

(***************************************************************************)
(* The ranking charts on their own: the top suppliers by spend, by         *)
(* performance and by risk, built of drawn tables of more suppliers than   *)
(* each chart keeps.                                                       *)
(***************************************************************************)
MaxRanked == 17

\* the measure of supplier i of n, between 0 and n
RankedMeasure(pattern, i, n) == GroupAmount(pattern, i, n) \div 100

\* the supplier i goes by: with shared, the third supplier goes by the name
\* of the second
RankedNameOf(i, shared) == SupplierNameOf(IF shared /\ i = 3 THEN 2 ELSE i)

\* one transaction for each of n suppliers, and with shared one more of the
\* supplier that has the name of the second
RankingSpendTable(n, pattern, shared) ==
    InsightTable(
        [i \in 1..n |->
            ChartRow(i, RankedNameOf(i, shared), "HVAC", "Controls", "Commercial",
                     GroupAmount(pattern, i, n))])

\* n suppliers of n SupplierID values
RankingSupplierTable(n, shared) ==
    DataFrame(MockSupplierColumns, {"Latitude", "Longitude", "AnnualRevenue"},
        [i \in 1..n |->
            [idx |-> i - 1, SupplierID |-> SupplierIDOf(i),
             SupplierName |-> RankedNameOf(i, shared),
             Category |-> "HVAC", Country |-> "USA"]])

\* a record of the latest quarter for each of the n suppliers, the scores
\* from 5.0 upwards, and a record of an earlier quarter for the first
RankingPerformanceTable(n, pattern) ==
    DataFrame(MockPerformanceColumns,
        {"DeliveryScore", "QualityScore", "ResponsivenessScore", "OverallScore"},
        <<[idx |-> 0, SupplierID |-> SupplierIDOf(1), Quarter |-> 7,
           DeliveryScore |-> 100, QualityScore |-> 100, ResponsivenessScore |-> 100,
           OverallScore |-> 100]>>
        \o [i \in 1..n |->
              LET score == 50 + 2 * RankedMeasure(pattern, i, n)
              IN  [idx |-> i, SupplierID |-> SupplierIDOf(i), Quarter |-> 8,
                   DeliveryScore |-> score, QualityScore |-> score,
                   ResponsivenessScore |-> score, OverallScore |-> score]])

\* np.random.uniform draws of the four risk columns for the n suppliers, the
\* four of a supplier alike
RankingRiskDraws(n, pattern) ==
    [i \in 1..n |->
        [c \in RiskColumns |-> 10 + 5 * RankedMeasure(pattern, n + 1 - i, n)]]

\* supplier_risk.py lines 57-166: supplier_performance of the whole score
\* range with its risk columns
RankingSupplierPerformance(suppliers, performance_data, draws) ==
    AssignRiskColumns(
        FilterScoreRange(
            Ref("local", merge_left(suppliers, latest_performance(performance_data))),
            ScoreRangeDefault),
        draws).df

InitRankings ==
    /\ \E n \in 1..MaxRanked, shared \in BOOLEAN,
          pattern \in {"ascending", "descending", "equal", "mixed"} :
          /\ \E mock \in MockSessionStates :
                session_state =
                    [mock EXCEPT !.spend_data = RankingSpendTable(n, pattern, shared),
                                 !.supplier_data = RankingSupplierTable(n, shared),
                                 !.performance_data = RankingPerformanceTable(n, pattern)]
          /\ filtered_data = session_state.spend_data
          /\ filtered_suppliers = session_state.supplier_data
          /\ supplier_performance =
                RankingSupplierPerformance(filtered_suppliers,
                                           session_state.performance_data,
                                           RankingRiskDraws(n, pattern))
    /\ data_type = "Spend Data"
    /\ uploaded_file = None
    /\ reset_clicked = FALSE
    /\ validation = None
    /\ error = "none"
    /\ risk_view = None
    /\ insights = None
    /\ figures = << >>
    /\ profile = None
    /\ pc = "fig2"
    /\ trigger = "other"
    /\ selected_category = "All Categories"
    /\ selected_bu = "All Business Units"
    /\ date_range = DateRangeDefault(session_state.spend_data)
    /\ risk_category = "All Categories"
    /\ selected_country = "All Countries"
    /\ score_range = ScoreRangeDefault

\* the rows of suppliers_df as bars of their Amount
SpendBars(rows) ==
    [i \in DOMAIN rows |-> [y |-> rows[i].key, x |-> Whole(rows[i].Amount)]]

\* category_intelligence.py lines 140-171: fig2, the top 10 suppliers by spend
top_suppliers_chart ==
    /\ pc = "fig2"
    /\ figures' = <<bar_chart("Amount", SpendBars(suppliers_df(filtered_data)))>>
    /\ pc' = "fig1_risk"
    /\ UNCHANGED <<session_state, upload_vars, trigger, validation, error,
                   selected_category, selected_bu, date_range, filtered_data,
                   insights, risk_vars, relationship_vars>>

\* supplier_risk.py lines 80-81: fig1 of the Supplier Performance Dashboard
overall_performance_chart ==
    /\ pc = "fig1_risk"
    /\ figures' = Append(figures,
                         create_supplier_chart(
                             latest_performance(session_state.performance_data),
                             filtered_suppliers, "OverallScore"))
    /\ pc' = "fig7"
    /\ UNCHANGED <<session_state, upload_vars, trigger, validation, error,
                   selected_category, selected_bu, date_range, filtered_data,
                   insights, risk_vars, relationship_vars>>

\* supplier_risk.py lines 203-217: fig7, the top 10 suppliers by risk
top_risk_chart ==
    /\ pc = "fig7"
    /\ figures' = Append(figures, high_risk_chart(supplier_performance))
    /\ pc' = "idle"
    /\ UNCHANGED <<session_state, upload_vars, trigger, validation, error,
                   selected_category, selected_bu, date_range, filtered_data,
                   insights, risk_vars, relationship_vars>>

NextRankings == top_suppliers_chart \/ overall_performance_chart \/ top_risk_chart

SpecRankings == InitRankings /\ [][NextRankings]_vars

(***************************************************************************)
(* The script run line by line around Reset to Demo Data (app.py, lines    *)
(* 171-177), with the script runner's stop of a run: a session has one     *)
(* script thread, and a new interaction of the user stops the running      *)
(* script at its next call of a Streamlit element.                         *)
(***************************************************************************)
\* line 171: if st.button("Reset to Demo Data")
reset_button ==
    /\ pc = "reset"
    /\ pc' = IF reset_clicked THEN "reset_spend_data" ELSE "tab1"
    /\ UNCHANGED <<session_state, upload_vars, trigger, validation, error,
                   category_vars, risk_vars, relationship_vars>>

\* one of lines 172-175: st.session_state.<state_var> = get_mock_..._data()
reset_table(position, state_var, generated, next_position) ==
    /\ pc = position
    /\ \E table \in generated :
          session_state' = [session_state EXCEPT ![state_var] = table]
    /\ pc' = next_position
    /\ UNCHANGED <<upload_vars, trigger, validation, error, category_vars,
                   risk_vars, relationship_vars>>

reset_spend_data ==
    reset_table("reset_spend_data", "spend_data", get_mock_spend_data,
                "reset_supplier_data")

reset_supplier_data ==
    reset_table("reset_supplier_data", "supplier_data", get_mock_supplier_data,
                "reset_contract_data")

reset_contract_data ==
    reset_table("reset_contract_data", "contract_data", get_mock_contract_data,
                "reset_performance_data")

reset_performance_data ==
    reset_table("reset_performance_data", "performance_data",
                get_mock_performance_data, "reset_rerun")

\* lines 176-177: st.success(...) and st.rerun()
reset_rerun ==
    /\ pc = "reset_rerun"
    /\ reset_clicked' = FALSE
    /\ validation' = None
    /\ pc' = st_rerun
    /\ UNCHANGED <<session_state, data_type, uploaded_file, trigger, error,
                   category_vars, risk_vars, relationship_vars>>

\* the positions of the script between the first and the last assignment
\* of the reset
ResetAssigning ==
    {"reset_supplier_data", "reset_contract_data", "reset_performance_data"}

\* a script with a call of a Streamlit element after each assignment of
\* the reset
Checkpoints_after_each_assignment ==
    {"upload", "reset", "reset_rerun", "tab1", "tab2", "tab2_end", "tab3",
     "tab3_end", "tab4", "tab4_end"} \cup ResetAssigning

\* the positions of the script at a call of a Streamlit element (st.selectbox
\* and st.file_uploader before the upload handler, st.button at line 171,
\* st.success at line 176, the elements of the tabs): lines 172-175 call none
Checkpoints ==
    {"upload", "reset", "reset_rerun", "tab1", "tab2", "tab2_end", "tab3",
     "tab3_end", "tab4", "tab4_end"}

\* the script runner stops the run at a call of an element when the user
\* has interacted again; the button's click is used up with its run
script_stopped ==
    /\ pc \in Checkpoints
    /\ pc' = "idle"
    /\ reset_clicked' = FALSE
    /\ filtered_data' = NoFrame
    /\ filtered_suppliers' = NoFrame
    /\ supplier_performance' = NoFrame
    /\ risk_view' = None
    /\ insights' = None
    /\ figures' = << >>
    /\ profile' = None
    /\ UNCHANGED <<session_state, data_type, uploaded_file, trigger, validation,
                   error, selection_vars>>

\* the session after its first script run has filled the Data Store, the
\* data type of the uploader set to Contract Data
InitAtomic ==
    /\ session_state \in MockSessionStates
    /\ data_type = "Contract Data"
    /\ uploaded_file = None
    /\ reset_clicked = FALSE
    /\ validation = None
    /\ error = "none"
    /\ filtered_data = NoFrame
    /\ filtered_suppliers = NoFrame
    /\ supplier_performance = NoFrame
    /\ risk_view = None
    /\ insights = None
    /\ figures = << >>
    /\ profile = None
    /\ pc = "upload"
    /\ trigger = "other"
    /\ selected_category = "All Categories"
    /\ selected_bu = "All Business Units"
    /\ date_range = DateRangeDefault(session_state.spend_data)
    /\ risk_category = "All Categories"
    /\ selected_country = "All Countries"
    /\ score_range = ScoreRangeDefault

NextAtomic ==
    \/ UploadFile(RequiredOnlyFile("Contract Data"))
    \/ RemoveFile
    \/ ClickReset
    \/ UploadHandler
    \/ reset_button
    \/ reset_spend_data
    \/ reset_supplier_data
    \/ reset_contract_data
    \/ reset_performance_data
    \/ reset_rerun
    \/ welcome_tab
    \/ category_intelligence_show
    \/ supplier_risk_show
    \/ supplier_relationship_show
    \/ show_returns
    \/ script_stopped

SpecAtomic == InitAtomic /\ [][NextAtomic]_vars

(***************************************************************************)
(* The sample generators over their whole supplier lists                   *)
(* (utils/mock_data.py): what app.py lines 119-126 put in an empty Data    *)
(* Store, with the number of transactions cut down.                        *)
(***************************************************************************)
\* get_mock_spend_data, lines 9-15: its suppliers list
spend_suppliers ==
    <<
      "Johnson Controls", "Schneider Electric", "Siemens Building Tech",
      "Carrier HVAC", "Trane Technologies", "Daikin Industries",
      "Honeywell Building Solutions", "ABB Electrification", "Uponor Piping Systems",
      "Rheem Manufacturing", "Viega Plumbing", "Grundfos Pumps", "Eaton Electrical",
      "Victaulic Piping", "Mitsubishi Electric HVAC"
    >>

\* get_mock_supplier_data, lines 92-108: its suppliers list
master_suppliers ==
    <<
      [name |-> "Johnson Controls", category |-> "Building Automation", country |-> "USA"],
      [name |-> "Schneider Electric", category |-> "Electrical", country |-> "France"],
      [name |-> "Siemens Building Tech", category |-> "Building Automation", country |-> "Germany"],
      [name |-> "Carrier HVAC", category |-> "HVAC", country |-> "USA"],
      [name |-> "Trane Technologies", category |-> "HVAC", country |-> "USA"],
      [name |-> "Daikin Industries", category |-> "HVAC", country |-> "Japan"],
      [name |-> "Honeywell Building Solutions", category |-> "Building Automation", country |-> "USA"],
      [name |-> "ABB Electrification", category |-> "Electrical", country |-> "Switzerland"],
      [name |-> "Uponor Piping Systems", category |-> "Plumbing", country |-> "Finland"],
      [name |-> "Rheem Manufacturing", category |-> "Plumbing", country |-> "USA"],
      [name |-> "Viega Plumbing", category |-> "Plumbing", country |-> "Germany"],
      [name |-> "Grundfos Pumps", category |-> "Mechanical", country |-> "Denmark"],
      [name |-> "Eaton Electrical", category |-> "Electrical", country |-> "Ireland"],
      [name |-> "Victaulic Piping", category |-> "Fire Protection", country |-> "USA"],
      [name |-> "Mitsubishi Electric HVAC", category |-> "HVAC", country |-> "Japan"]
    >>

\* str(n).zfill(4)
zfill4(n) ==
    IF n < 10 THEN "000" \o ToString(n)
    ELSE IF n < 100 THEN "00" \o ToString(n)
    ELSE IF n < 1000 THEN "0" \o ToString(n)
    ELSE ToString(n)

\* line 114: f"S{str(i+1).zfill(4)}" for the i of enumerate(suppliers)
supplier_id(i) == "S" \o zfill4(i + 1)

\* lines 112-144: one row for each entry of the list
generated_supplier_data ==
    DataFrame(MockSupplierColumns, {"Latitude", "Longitude", "AnnualRevenue"},
        [k \in DOMAIN master_suppliers |->
            [idx |-> k - 1, SupplierID |-> supplier_id(k - 1),
             SupplierName |-> master_suppliers[k].name,
             Category |-> master_suppliers[k].category,
             Country |-> master_suppliers[k].country]])

\* the place of a SupplierID among the generated suppliers
SupplierNumber(id) ==
    CHOOSE n \in DOMAIN master_suppliers : supplier_id(n - 1) = id

\* supplier["SupplierID"][1:]: the digits of a SupplierID
IDDigits(id) == zfill4(SupplierNumber(id))

\* line 162 without the number of the contract
contract_id_of_supplier(id, j) == "C" \o IDDigits(id)

\* line 162: f"C{supplier['SupplierID'][1:]}{j+1}"
contract_id(id, j) == "C" \o IDDigits(id) \o ToString(j + 1)

RECURSIVE ContractRows(_, _)
\* lines 157-210: range(num_contracts) contracts for each supplier row
ContractRows(supplier_rows, num_contracts) ==
    IF supplier_rows = << >> THEN << >>
    ELSE LET supplier == Head(supplier_rows)
         IN  [n \in 1..num_contracts[supplier.SupplierID] |->
                 [ContractID |-> contract_id(supplier.SupplierID, n - 1),
                  SupplierID |-> supplier.SupplierID,
                  SupplierName |-> supplier.SupplierName,
                  Category |-> supplier.Category,
                  Status |-> "Active"]]
             \o ContractRows(Tail(supplier_rows), num_contracts)

\* line 158: random.randint(1, 3) for each supplier; the draws the model
\* takes: one for all, three for all, and one to three by turns
NumContractDraws ==
    { [id \in unique(generated_supplier_data, "SupplierID") |-> 1],
      [id \in unique(generated_supplier_data, "SupplierID") |-> 3],
      [id \in unique(generated_supplier_data, "SupplierID") |->
          1 + (SupplierNumber(id) % 3)] }

\* get_mock_contract_data, lines 146-212: based on a call of its own to
\* get_mock_supplier_data
generated_contract_data ==
    { DataFrame(MockContractColumns, {"Value", "NoticePeriodDays"},
                WithIndex(ContractRows(generated_supplier_data.rows, num_contracts))) :
        num_contracts \in NumContractDraws }

\* lines 222-223: the eight quarters, as their ordinals
quarters == <<1, 2, 3, 4, 5, 6, 7, 8>>

\* get_mock_performance_data, lines 214-261: a row for each supplier of a
\* call of its own to get_mock_supplier_data and each quarter, the scores of
\* the draw held through the quarters; line 249: the overall score is
\* round(0.4 * delivery + 0.4 * quality + 0.2 * responsiveness, 1)
generated_performance_data ==
    { DataFrame(MockPerformanceColumns,
        {"DeliveryScore", "QualityScore", "ResponsivenessScore", "OverallScore"},
        [n \in 1..(Len(generated_supplier_data.rows) * Len(quarters)) |->
            [idx |-> n - 1,
             SupplierID |->
                 generated_supplier_data.rows[((n - 1) \div Len(quarters)) + 1].SupplierID,
             Quarter |-> quarters[((n - 1) % Len(quarters)) + 1],
             DeliveryScore |-> s[1], QualityScore |-> s[2], ResponsivenessScore |-> s[3],
             OverallScore |-> (4 * s[1] + 4 * s[2] + 2 * s[3]) \div 10]]) :
        s \in {<<90, 85, 75>>, <<55, 70, 60>>} }

\* of num_transactions = 500
MaxMockTransactions == 2

\* get_mock_spend_data, lines 47-87: random.choice(suppliers) for each
\* transaction
generated_spend_data ==
    { DataFrame(MockSpendColumns, {"Amount"},
        [i \in DOMAIN choice |->
            MockSpendRow(i - 1, spend_suppliers[choice[i]], "Mechanical", "Commercial",
                         i - 1, 15000)]) :
        choice \in [1..MaxMockTransactions -> DOMAIN spend_suppliers] }

\* st.session_state before the first script run: no table in it
EmptySessionState ==
    [spend_data |-> NoFrame, supplier_data |-> NoFrame,
     contract_data |-> NoFrame, performance_data |-> NoFrame]

InitMock ==
    /\ session_state = EmptySessionState
    /\ WidgetDefaults
    /\ pc = "start"
    /\ trigger = "other"
    /\ selected_category = "All Categories"
    /\ selected_bu = "All Business Units"
    /\ date_range = <<0, 0>>
    /\ risk_category = "All Categories"
    /\ selected_country = "All Countries"
    /\ score_range = ScoreRangeDefault

\* app.py lines 119-126: each table that is not in st.session_state is
\* generated
initialize_session_state ==
    /\ pc = "start"
    /\ \E spend \in generated_spend_data, contracts \in generated_contract_data,
          performance \in generated_performance_data :
            session_state' =
                [spend_data |-> IF session_state.spend_data = NoFrame
                                THEN spend ELSE session_state.spend_data,
                 supplier_data |-> IF session_state.supplier_data = NoFrame
                                   THEN generated_supplier_data
                                   ELSE session_state.supplier_data,
                 contract_data |-> IF session_state.contract_data = NoFrame
                                   THEN contracts ELSE session_state.contract_data,
                 performance_data |-> IF session_state.performance_data = NoFrame
                                      THEN performance
                                      ELSE session_state.performance_data]
    /\ pc' = "upload"
    /\ UNCHANGED <<upload_vars, trigger, validation, error, category_vars, risk_vars,
                   relationship_vars>>

NextMock == initialize_session_state

SpecMock == InitMock /\ [][NextMock]_vars

(***************************************************************************)
(* Properties of the upload handler and of Reset to Demo Data.             *)
(***************************************************************************)
\* the causes of a failed validation, read off the uploaded file
UnsupportedExtension(file) == file.name[Len(file.name)] \notin {".csv", ".xlsx"}

ParseFails(file) ==
    \/ file.name[Len(file.name)] = ".csv" /\ file.format # "csv"
    \/ file.name[Len(file.name)] = ".xlsx" /\ file.format # "excel"

AbsentRequired(file, dt) == RequiredSet(dt) \ file.columns

NonNumericAmount(file) ==
    \/ file.rows = << >>
    \/ \E i \in DOMAIN file.rows : file.rows[i].Amount \notin {"100", "250"}

NullSupplier(file) == \E i \in DOMAIN file.rows : file.rows[i].Supplier = ""

UploadFails(file, dt) ==
    \/ UnsupportedExtension(file)
    \/ ParseFails(file)
    \/ AbsentRequired(file, dt) # {}
    \/ dt = "Spend Data" /\ (NonNumericAmount(file) \/ NullSupplier(file))

\* the upload handler runs on a file in the widget
UploadAttempt == pc = "upload" /\ uploaded_file # None

\* C1: an upload attempt whose validation fails (unsupported extension,
\* parse exception, missing columns, non-numeric Amount, null Supplier) gets
\* (False, message, None) from validate_data, nothing is raised, and the
\* four tables are after the attempt what they were before it.
C1_FailedUploadKeepsTables ==
    [][ (UploadAttempt /\ UploadFails(uploaded_file[1], data_type)) =>
            /\ error' = "none"
            /\ validation' # None
            /\ validation'[1][1] = FALSE
            /\ Len(validation'[1][2]) > 0
            /\ validation'[1][3] = None
            /\ session_state' = session_state ]_vars

\* a failed attempt has been handled while the Data Store held an earlier
\* upload, which is still in place
C1_Witness ==
    /\ pc = "reset"
    /\ validation # None
    /\ validation[1][1] = FALSE
    /\ validation[1][3] = None
    /\ session_state \notin MockSessionStates

\* the table pd.read_csv / pd.read_excel makes of an upload that parses
ParsedTable(file) == read_table(file, file.format).value[1]

\* C2: a successful upload of data type T replaces exactly the table T maps
\* to with the parsed table as it is, and leaves the other three unchanged.
C2_SuccessfulUploadReplacesOneTable ==
    [][ (UploadAttempt /\ ~UploadFails(uploaded_file[1], data_type)) =>
            /\ validation' # None
            /\ validation'[1][1] = TRUE
            /\ session_state'[data_type_map(data_type)] = ParsedTable(uploaded_file[1])
            /\ \A k \in StateVars \ {data_type_map(data_type)} :
                   session_state'[k] = session_state[k] ]_vars

\* a supplier upload has replaced the supplier table, with rows that are not
\* the sample's, beside an earlier spend upload that is still there
C2_Witness ==
    /\ pc = "reset"
    /\ validation # None
    /\ validation[1][1] = TRUE
    /\ data_type = "Supplier Master Data"
    /\ session_state.supplier_data = ParsedTable(uploaded_file[1])
    /\ session_state.supplier_data \notin get_mock_supplier_data
    /\ session_state.spend_data \notin get_mock_spend_data

\* C3: when the script run a click on Reset to Demo Data started has
\* completed, all four tables are freshly generated samples, whatever was
\* uploaded before and whether or not a file is still in the upload widget.
C3_ResetRestoresSamples ==
    (pc = "idle" /\ trigger = "reset" /\ error = "none") =>
        session_state \in MockSessionStates

(***************************************************************************)
(* Properties of the Validator.                                            *)
(***************************************************************************)
\* the upload handler has run on an upload that parsed
ParsedUploadHandled ==
    /\ pc # "upload"
    /\ uploaded_file # None
    /\ ~UnsupportedExtension(uploaded_file[1])
    /\ ~ParseFails(uploaded_file[1])

\* what the specification asks of a parsed table of a data type
AcceptCondition(table, dt) ==
    /\ RequiredSet(dt) \subseteq table.columns
    /\ dt = "Spend Data" =>
          /\ "Amount" \in table.numeric
          /\ \A i \in DOMAIN table.rows : table.rows[i].Supplier # NaN

\* C4: validate_data accepts a parsed upload of a data type if and only if
\* every required column of that type is present and, for Spend Data only,
\* the Amount column is numeric and no Supplier value is null.
C4_AcceptIffConditions ==
    ParsedUploadHandled =>
        /\ validation # None
        /\ validation[1][1] = AcceptCondition(ParsedTable(uploaded_file[1]), data_type)

\* a spend upload of two rows has been accepted
C4_Witness ==
    /\ ParsedUploadHandled
    /\ data_type = "Spend Data"
    /\ validation[1][1] = TRUE
    /\ len(validation[1][3][1]) = 2

\* the column names of all four schemas
SchemaColumns == UNION {RequiredSet(dt) : dt \in DataTypes}

\* the columns a message names
ColumnsNamed(message) == Range(message) \cap SchemaColumns

\* C5: the message that rejects a parsed upload for missing columns names
\* every required column of the data type that is absent from the upload,
\* and no column that is present.
C5_MessageNamesAbsentColumns ==
    (ParsedUploadHandled /\ AbsentRequired(uploaded_file[1], data_type) # {}) =>
        /\ validation # None
        /\ validation[1][1] = FALSE
        /\ validation[1][2][1] = "Missing required columns: "
        /\ ColumnsNamed(validation[1][2]) = AbsentRequired(uploaded_file[1], data_type)

\* an upload lacking three required columns and holding the other three has
\* been rejected
C5_Witness ==
    /\ ParsedUploadHandled
    /\ validation # None
    /\ validation[1][1] = FALSE
    /\ Cardinality(AbsentRequired(uploaded_file[1], data_type)) = 3
    /\ Cardinality(RequiredSet(data_type) \cap uploaded_file[1].columns) = 3
    /\ Cardinality(ColumnsNamed(validation[1][2])) = 3

(***************************************************************************)
(* Properties of the Data Store under the pages.                           *)
(***************************************************************************)
\* C6: every column a page reads is present in the table it reads, so a
\* table the Validator accepted never makes a page fail on a missing column.
C6_NoMissingColumnDownstream == error # "KeyError"

\* the step is the upload handler's assignment of a validated upload
ValidatedUploadStep ==
    /\ UploadAttempt
    /\ validation' # None
    /\ validation'[1][1] = TRUE
    /\ \A k \in StateVars \ {data_type_map(data_type)} :
           session_state'[k] = session_state[k]

\* the step is the Reset to Demo Data button's
ResetStep ==
    /\ pc = "reset"
    /\ reset_clicked
    /\ session_state' \in MockSessionStates

\* C7: the four tables change only through a validated upload or through
\* Reset to Demo Data; rendering a page, filtering, and the derived columns
\* the pages compute (Month, the risk sub-scores) leave them unchanged.
C7_StoreChangesOnlyByUploadOrReset ==
    [][ session_state' # session_state => (ValidatedUploadStep \/ ResetStep) ]_vars

\* a script run has rendered the Category Intelligence page and the Supplier
\* Risk page; the risk scores are in the page's table, and neither they nor
\* the Month column are in the Data Store's
C7_Witness ==
    /\ pc = "tab3_end"
    /\ error = "none"
    /\ "RiskScore" \in supplier_performance.columns
    /\ "Month" \notin session_state.spend_data.columns
    /\ "RiskScore" \notin session_state.supplier_data.columns

(***************************************************************************)
(* Properties of the Filter Engine.                                        *)
(***************************************************************************)
\* the Category Intelligence page, and the Supplier Risk page, have rendered
SpendRendered == pc = "tab2_end" /\ error = "none"
RiskRendered == pc = "tab3_end" /\ error = "none"

\* a table without one of its columns
DropColumn(df, col) ==
    [df EXCEPT !.columns = @ \ {col},
               !.numeric = @ \ {col},
               !.rows = [i \in DOMAIN @ |->
                           [c \in (DOMAIN @[i]) \ {col} |-> @[i][c]]]]

\* the page's filtered table, as rows of the source
FilteredSpend == DropColumn(filtered_data, "Month")

\* the predicates the widgets select, on a row of the source
CategoryPasses(r) == selected_category = "All Categories" \/ r.Category = selected_category
BusinessUnitPasses(r) == selected_bu = "All Business Units" \/ r.BusinessUnit = selected_bu
DatePasses(r) ==
    Len(date_range) = 2 =>
        (date_range[1] <= to_date(r.Date) /\ to_date(r.Date) <= date_range[2])
SupplierCategoryPasses(r) == risk_category = "All Categories" \/ r.Category = risk_category
CountryPasses(r) == selected_country = "All Countries" \/ r.Country = selected_country

InSourceOrder(rows) ==
    \A i, j \in DOMAIN rows : i < j => rows[i].idx < rows[j].idx

\* C9: for any combination of selected filter values the filtered table
\* holds exactly the rows of the source that satisfy every selected
\* predicate (exact equality, conjunction), in the order of the source.
C9_FilteredIsConjunction ==
    /\ SpendRendered =>
        /\ Range(FilteredSpend.rows) =
              {r \in Range(session_state.spend_data.rows) :
                  CategoryPasses(r) /\ BusinessUnitPasses(r) /\ DatePasses(r)}
        /\ InSourceOrder(FilteredSpend.rows)
    /\ RiskRendered =>
        /\ Range(filtered_suppliers.rows) =
              {r \in Range(session_state.supplier_data.rows) :
                  SupplierCategoryPasses(r) /\ CountryPasses(r)}
        /\ InSourceOrder(filtered_suppliers.rows)

\* a category, a business unit and a date range narrower than the data are
\* selected; one of the two rows passes all three
C9_Witness ==
    /\ SpendRendered
    /\ selected_category # "All Categories"
    /\ selected_bu # "All Business Units"
    /\ Len(date_range) = 2
    /\ date_range # DateRangeDefault(session_state.spend_data)
    /\ len(session_state.spend_data) = 2
    /\ len(filtered_data) = 1

\* C10: two filters on independent columns commute: applied in the other
\* order they give the table the page computes.
C10_FiltersCommute ==
    /\ SpendRendered =>
          FilteredSpend =
              FilterCategory(
                  FilterBusinessUnit(
                      FilterDateRange(copy(Ref("spend_data", session_state.spend_data)),
                                      date_range),
                      selected_bu),
                  selected_category).df
    /\ RiskRendered =>
          filtered_suppliers =
              FilterSupplierCategory(
                  FilterCountry(copy(Ref("supplier_data", session_state.supplier_data)),
                                selected_country),
                  risk_category).df

\* a category and a business unit are selected on two rows of one business
\* unit and two categories, and a category and a country on two suppliers
\* of one category and two countries
C10_Witness ==
    /\ RiskRendered
    /\ risk_category # "All Categories"
    /\ selected_country # "All Countries"
    /\ len(session_state.supplier_data) = 2
    /\ Cardinality(unique(session_state.supplier_data, "Country")) = 2
    /\ len(filtered_suppliers) = 1

(***************************************************************************)
(* Properties of the date-range filter and of zero-row inputs.             *)
(***************************************************************************)
\* C11: the date-range filter keeps exactly the rows whose day d satisfies
\* start <= d <= end, both ends included; a range of a single date is
\* applied as a filter that keeps the rows of that day only.
C11_DateRangeInclusive ==
    SpendRendered =>
        /\ Len(date_range) = 2 =>
              Range(FilteredSpend.rows) =
                  {r \in Range(session_state.spend_data.rows) :
                      /\ CategoryPasses(r) /\ BusinessUnitPasses(r)
                      /\ date_range[1] <= to_date(r.Date)
                      /\ to_date(r.Date) <= date_range[2]}
        /\ Len(date_range) = 1 =>
              Range(FilteredSpend.rows) =
                  {r \in Range(session_state.spend_data.rows) :
                      /\ CategoryPasses(r) /\ BusinessUnitPasses(r)
                      /\ to_date(r.Date) = date_range[1]}

\* C12: when a table of the Data Store has zero rows, or the filters of a
\* page match no rows, the script run shows its "no data" state and ends
\* without an exception.
C12_ZeroRowsNoError ==
    (\/ len(session_state.spend_data) = 0
     \/ len(session_state.supplier_data) = 0
     \/ (insights # None /\ insights[1].warning # "none")) =>
        error = "none"

(***************************************************************************)
(* Properties of the insight computations.                                 *)
(***************************************************************************)
\* the Category Intelligence page has computed its insights of filtered_data
InsightsComputed == insights # None /\ insights[1].warning = "none"

\* the summed Amount of each supplier of a table
SupplierTotals(df) ==
    [s \in unique(df, "Supplier") |->
        sum(BooleanIndex(df, LAMBDA r : r.Supplier = s))]

RECURSIVE SumOver(_, _)
SumOver(f, S) ==
    IF S = {} THEN 0
    ELSE LET x == CHOOSE y \in S : TRUE
         IN  f[x] + SumOver(f, S \ {x})


\* the n entities of the largest totals: those with fewer than n entities
\* ahead of them (equal totals are taken in key order)
Largest(totals, n) ==
    {s \in DOMAIN totals :
        Cardinality({t \in DOMAIN totals :
            \/ totals[t] > totals[s]
            \/ totals[t] = totals[s] /\ KeyPos(t) < KeyPos(s)}) < n}

\* C13 (as the code has it): the top-3 concentration ratio is
\* 100 * (the sum of the three largest per-supplier totals, or of all of
\* them when there are fewer than three suppliers) / (total filtered spend)
\* when the total is positive, and 0 whenever the total is 0 or negative.
C13_Top3Concentration ==
    InsightsComputed =>
        LET totals == SupplierTotals(filtered_data)
            total == SumOver(totals, DOMAIN totals)
            top3 == SumOver(totals, Largest(totals, 3))
        IN  insights[1].top3_concentration =
                IF total > 0 THEN Percent(top3, total) ELSE Whole(0)

\* C13 as stated: the ratio for every total other than 0, and 0 for a
\* total of 0
C13_Top3Concentration_AsStated ==
    InsightsComputed =>
        LET totals == SupplierTotals(filtered_data)
            total == SumOver(totals, DOMAIN totals)
            top3 == SumOver(totals, Largest(totals, 3))
        IN  insights[1].top3_concentration =
                IF total = 0 THEN Whole(0) ELSE Percent(top3, total)

\* four suppliers whose three largest hold a part of a positive total
C13_Witness ==
    /\ InsightsComputed
    /\ Cardinality(unique(filtered_data, "Supplier")) > 3
    /\ sum(filtered_data) > 0
    /\ FracLT(Whole(0), insights[1].top3_concentration)
    /\ FracLT(insights[1].top3_concentration, Whole(100))

\* the per-supplier totals of filtered_data are 100, 100, 100 and 700
TotalsOfExample ==
    LET totals == SupplierTotals(filtered_data)
    IN  /\ Cardinality(DOMAIN totals) = 4
        /\ Cardinality({s \in DOMAIN totals : totals[s] = 100}) = 3
        /\ Cardinality({s \in DOMAIN totals : totals[s] = 700}) = 1

\* C14 (as the code has it): for suppliers with totals [100, 100, 100, 700]
\* the three largest totals are 700, 100 and 100, and the computed top-3
\* concentration ratio is 90%.
C14_ExampleConcentration ==
    (InsightsComputed /\ TotalsOfExample) =>
        insights[1].top3_concentration = Whole(90)

\* C14 as stated: for totals [100, 100, 100, 700] the computed top-3
\* concentration ratio is 30%
C14_ExampleConcentration_AsStated ==
    (InsightsComputed /\ TotalsOfExample) =>
        insights[1].top3_concentration = Whole(30)

\* the page has computed the ratio of the example, the supplier of 700 being
\* the last one in key order
C14_Witness ==
    /\ InsightsComputed
    /\ TotalsOfExample
    /\ SupplierTotals(filtered_data)[SupplierNameOf(4)] = 700
    /\ insights[1].top3_concentration.den = 1

\* the year-month periods of filtered_data and the summed Amount of one
Periods == {filtered_data.rows[i].Month : i \in DOMAIN filtered_data.rows}
PeriodSum(m) == sum(BooleanIndex(filtered_data, LAMBDA r : r.Month = m))
FirstPeriod == CHOOSE m \in Periods : \A k \in Periods : m <= k
LastPeriod == CHOOSE m \in Periods : \A k \in Periods : k <= m

\* C15 (as the code has it): the period change %, which the page computes
\* when the filtered data has three year-month periods or more, is
\* (last - first) / first * 100 of the summed Amount of the first and last
\* period when the first-period sum is positive (1000 -> 1200 gives +20), and
\* 0 whenever the first-period sum is 0 or negative (0 -> 500 gives 0).
C15_PeriodChange ==
    InsightsComputed =>
        IF Cardinality(Periods) >= 3 THEN
            LET first == PeriodSum(FirstPeriod)
                last == PeriodSum(LastPeriod)
            IN  /\ insights[1].change_pct =
                      Some(IF first > 0 THEN Percent(last - first, first) ELSE Whole(0))
                /\ (first = 1000 /\ last = 1200) => insights[1].change_pct = Some(Whole(20))
                /\ (first = 0 /\ last = 500) => insights[1].change_pct = Some(Whole(0))
        ELSE insights[1].change_pct = None

\* C15 as stated: the ratio for every first-period sum other than 0, and 0
\* for a first-period sum of 0
C15_PeriodChange_AsStated ==
    (InsightsComputed /\ Cardinality(Periods) >= 3) =>
        LET first == PeriodSum(FirstPeriod)
            last == PeriodSum(LastPeriod)
        IN  insights[1].change_pct =
                Some(IF first = 0 THEN Whole(0) ELSE Percent(last - first, first))

\* four periods, the first of 1000 and the last of 1200, with other sums
\* between them
C15_Witness ==
    /\ InsightsComputed
    /\ Cardinality(Periods) = 4
    /\ PeriodSum(FirstPeriod) = 1000
    /\ PeriodSum(LastPeriod) = 1200
    /\ \A m \in Periods \ {FirstPeriod, LastPeriod} : PeriodSum(m) = 500
    /\ insights[1].change_pct = Some(Whole(20))

(***************************************************************************)
(* Properties of the risk score.                                           *)
(***************************************************************************)
\* the smallest and the largest of the four sub-scores of a row, in tenths
SubScores(r) == {r[c] : c \in RiskColumns}
MinSubScore(r) == CHOOSE x \in SubScores(r) : \A y \in SubScores(r) : x <= y
MaxSubScore(r) == CHOOSE x \in SubScores(r) : \A y \in SubScores(r) : y <= x

HighestSpender(name) ==
    LET totals == SupplierTotals(session_state.spend_data)
    IN  /\ name \in DOMAIN totals
        /\ \A t \in DOMAIN totals : totals[t] <= totals[name]

\* the Supplier Tier metric of lines 85-89
TierPercentileOfHighest ==
    (profile # None /\ HighestSpender(profile[1].SupplierName)) =>
        profile[1].tier.spend_percentile = Some(Whole(100))

\* the segmentation matrix of lines 466-486
SegmentationPercentileOfHighest ==
    profile # None =>
        \A i \in DOMAIN profile[1].segmentation :
            HighestSpender(profile[1].segmentation[i].SupplierName) =>
                profile[1].segmentation[i].SpendPercentile = Whole(100)

\* C17: in the supplier tier metric and in the segmentation matrix, the
\* supplier with the highest total spend of the spend table has a spend
\* percentile of exactly 100.
C17_HighestSpenderPercentile ==
    TierPercentileOfHighest /\ SegmentationPercentileOfHighest

(***************************************************************************)
(* Properties of the chart functions.                                      *)
(***************************************************************************)
\* the dimensions the page passes to the two functions
Dimension == IF selected_category = "All Categories" THEN "Category" ELSE "SubCategory"
YDimension == IF selected_bu = "All Business Units" THEN "BusinessUnit" ELSE "Supplier"

\* fig4 has been built of filtered_data
MatrixBuilt == Len(figures) = 2

\* the rows of filtered_data at one combination of the two dimensions
RowsAt(y, x) ==
    {i \in DOMAIN filtered_data.rows :
        filtered_data.rows[i][YDimension] = y /\ filtered_data.rows[i][Dimension] = x}

HeatmapOfNoRows ==
    MatrixBuilt /\ len(filtered_data) = 0 /\ figures[2].type = "annotation"

\* fig1 has been built of filtered_data
ChartBuilt == Len(figures) >= 1

\* the summed Amount of each group of filtered_data (the values of the
\* dimension that groupby keeps)
GroupTotals ==
    [g \in unique(filtered_data, Dimension) \ {NaN} |->
        sum(BooleanIndex(filtered_data, LAMBDA r : r[Dimension] = g))]

\* C19: create_spend_chart without a time dimension draws a pie chart of all
\* groups with their summed Amount when there are 10 groups or fewer, and
\* otherwise a bar chart of exactly 10 groups, in descending order of their
\* summed Amount, none of the groups left out having a larger sum than a
\* group drawn.
C19_SpendChart ==
    ChartBuilt =>
        LET fig1 == figures[1]
            totals == GroupTotals
            drawn == {fig1.data[i].key : i \in DOMAIN fig1.data}
        IN  /\ fig1.names = Dimension
            /\ Cardinality(drawn) = Len(fig1.data)
            /\ \A i \in DOMAIN fig1.data :
                  /\ fig1.data[i].key \in DOMAIN totals
                  /\ fig1.data[i].Amount = totals[fig1.data[i].key]
            /\ Cardinality(DOMAIN totals) <= 10 =>
                  fig1.type = "pie" /\ drawn = DOMAIN totals
            /\ Cardinality(DOMAIN totals) > 10 =>
                  /\ fig1.type = "bar"
                  /\ Len(fig1.data) = 10
                  /\ \A i \in 1..9 : fig1.data[i].Amount >= fig1.data[i + 1].Amount
                  /\ \A g \in DOMAIN totals \ drawn :
                        \A i \in DOMAIN fig1.data : totals[g] <= fig1.data[i].Amount

\* twelve groups of rising sums: the bar chart starts at the last group and
\* leaves out the first
C19_Witness ==
    /\ ChartBuilt
    /\ Cardinality(DOMAIN GroupTotals) = 12
    /\ figures[1].type = "bar"
    /\ figures[1].data[1].key = GroupNameOf(12)
    /\ \A i \in DOMAIN figures[1].data : figures[1].data[i].key # GroupNameOf(1)
    /\ figures[1].data[1].Amount > figures[1].data[10].Amount

\* ten groups are drawn as a pie chart
PieOfTenGroups ==
    ChartBuilt /\ Cardinality(DOMAIN GroupTotals) = 10 /\ figures[1].type = "pie"

(***************************************************************************)
(* Properties of the spending-opportunity message.                         *)
(***************************************************************************)
\* the three conditions, of the rows of filtered_data
TransactionCount == len(filtered_data)
SupplierCount == Cardinality(unique(filtered_data, "Supplier") \ {NaN})
\* transactions per supplier < 5
LowVolumePerSupplier == TransactionCount < 5 * SupplierCount
\* supplier count < 3 and total spend > 500,000
FewSuppliersHighSpend == SupplierCount < 3 /\ sum(filtered_data) > 500000
\* average transaction < 1,000 and transaction count > 100
ManySmallTransactions ==
    sum(filtered_data) < 1000 * TransactionCount /\ TransactionCount > 100

\* C20: of a filtered spend table with rows the page shows one message at
\* most: the consolidation message when transactions per supplier < 5;
\* else the concentration-risk message when supplier count < 3 and total
\* spend > 500,000; else the small-order message when the average
\* transaction < 1,000 and the transaction count > 100; else none.
C20_FirstMatchingRule ==
    InsightsComputed =>
        /\ Len(insights[1].opportunity) <= 1
        /\ LowVolumePerSupplier => insights[1].opportunity = <<"Opportunity Alert">>
        /\ (~LowVolumePerSupplier /\ FewSuppliersHighSpend) =>
              insights[1].opportunity = <<"Risk Alert">>
        /\ (~LowVolumePerSupplier /\ ~FewSuppliersHighSpend /\ ManySmallTransactions) =>
              insights[1].opportunity = <<"Efficiency Alert">>
        /\ (~LowVolumePerSupplier /\ ~FewSuppliersHighSpend /\ ~ManySmallTransactions) =>
              insights[1].opportunity = << >>

\* the second and the third rule both match and the message is the second's
C20_Witness ==
    /\ InsightsComputed
    /\ ~LowVolumePerSupplier
    /\ FewSuppliersHighSpend
    /\ ManySmallTransactions
    /\ insights[1].opportunity = <<"Risk Alert">>

\* the first and the second rule both match and the message is the first's
FirstRuleOverSecond ==
    /\ InsightsComputed
    /\ LowVolumePerSupplier
    /\ FewSuppliersHighSpend
    /\ insights[1].opportunity = <<"Opportunity Alert">>

\* the third rule alone matches
ThirdRuleAlone ==
    /\ InsightsComputed
    /\ insights[1].opportunity = <<"Efficiency Alert">>

(***************************************************************************)
(* Properties of the concentration and trend messages.                     *)
(***************************************************************************)
\* the number of suppliers the top-suppliers chart ranks: ten at most
RankedSuppliers ==
    LET n == Cardinality(DOMAIN SupplierTotals(filtered_data))
    IN  IF n > 10 THEN 10 ELSE n

Dependency == <<"High supplier concentration detected.">>
Fragmentation == <<"Fragmented supplier base detected.">>
Balanced == <<"Balanced supplier concentration.">>

\* C21: for the top-3 concentration c the page shows one concentration
\* message at most: the dependency-risk message iff c > 75, the
\* fragmentation message iff c < 30 and more than 7 suppliers are ranked,
\* the balanced message iff 50 <= c <= 75, and no message otherwise.
C21_ConcentrationMessage ==
    InsightsComputed =>
        LET c == insights[1].top3_concentration
            message == insights[1].concentration_message
        IN  /\ Len(message) <= 1
            /\ message = Dependency <=> FracLT(Whole(75), c)
            /\ message = Fragmentation <=> (FracLT(c, Whole(30)) /\ RankedSuppliers > 7)
            /\ message = Balanced <=> (FracLE(Whole(50), c) /\ FracLE(c, Whole(75)))
            /\ message = << >> <=>
                  \/ FracLE(Whole(30), c) /\ FracLT(c, Whole(50))
                  \/ FracLT(c, Whole(30)) /\ RankedSuppliers <= 7

\* a concentration of exactly 75 with the balanced message
C21_Witness ==
    /\ InsightsComputed
    /\ insights[1].top3_concentration = Whole(75)
    /\ insights[1].concentration_message = Balanced

\* the other three outcomes
FragmentationShown ==
    InsightsComputed /\ insights[1].concentration_message = Fragmentation
NoMessageBelow30 ==
    /\ InsightsComputed
    /\ FracLT(insights[1].top3_concentration, Whole(30))
    /\ insights[1].concentration_message = << >>
NoMessageBetween30And50 ==
    /\ InsightsComputed
    /\ FracLE(Whole(30), insights[1].top3_concentration)
    /\ FracLT(insights[1].top3_concentration, Whole(50))
    /\ insights[1].concentration_message = << >>

\* the message of the trend insight box, when one is shown
TrendShown == InsightsComputed /\ insights[1].trend_message # None
TrendIs(message) == insights[1].trend_message[1].message = message

TrendMessages ==
    {"Stable Spending Pattern", "Significant Spending Growth",
     "Moderate Spending Growth", "Major Spending Reduction", "Spending Reduction"}

\* C22: whenever a trend insight is shown, it is exactly one of the five
\* messages, chosen of the period change c: stable iff |c| < 5, the
\* significant-growth warning iff c > 20, moderate growth iff 5 <= c <= 20,
\* major reduction iff c < -20, and mild reduction iff -20 <= c <= -5.
C22_TrendMessage ==
    TrendShown =>
        LET c == insights[1].change_pct[1] IN
        /\ insights[1].trend_message[1].message \in TrendMessages
        /\ TrendIs("Stable Spending Pattern") <=>
              (FracLT(Whole(-5), c) /\ FracLT(c, Whole(5)))
        /\ TrendIs("Significant Spending Growth") <=> FracLT(Whole(20), c)
        /\ TrendIs("Moderate Spending Growth") <=>
              (FracLE(Whole(5), c) /\ FracLE(c, Whole(20)))
        /\ TrendIs("Major Spending Reduction") <=> FracLT(c, Whole(-20))
        /\ TrendIs("Spending Reduction") <=>
              (FracLE(Whole(-20), c) /\ FracLE(c, Whole(-5)))
        /\ insights[1].trend_message[1].color =
              IF TrendIs("Significant Spending Growth") THEN "warning"
              ELSE IF c.num < 0 /\ ~TrendIs("Stable Spending Pattern") THEN "success"
              ELSE "info"

\* a change of exactly 20 is moderate growth
C22_Witness ==
    /\ TrendShown
    /\ insights[1].change_pct = Some(Whole(20))
    /\ TrendIs("Moderate Spending Growth")

\* the edges of the other cases
ChangeOfFive ==
    TrendShown /\ insights[1].change_pct = Some(Whole(5)) /\ TrendIs("Moderate Spending Growth")
ChangeOfMinusFive ==
    TrendShown /\ insights[1].change_pct = Some(Whole(-5)) /\ TrendIs("Spending Reduction")
ChangeOfMinusTwenty ==
    TrendShown /\ insights[1].change_pct = Some(Whole(-20)) /\ TrendIs("Spending Reduction")
MajorReduction == TrendShown /\ TrendIs("Major Spending Reduction")
SignificantGrowth == TrendShown /\ TrendIs("Significant Spending Growth")

\* C30: the page shows a trend insight message iff the filtered spend data
\* has 3 distinct year-month periods or more; and when it is shown and the
\* summed Amount of the first period is 0, the message is the stable one
\* whatever the sum of the last period.
C30_TrendShownFromThreePeriods ==
    InsightsComputed =>
        /\ insights[1].trend_message # None <=> Cardinality(Periods) >= 3
        /\ (insights[1].trend_message # None /\ PeriodSum(FirstPeriod) = 0) =>
              TrendIs("Stable Spending Pattern")

\* three periods, the first of 0 and the last of 1200: the stable message
C30_Witness ==
    /\ TrendShown
    /\ Cardinality(Periods) = 3
    /\ PeriodSum(FirstPeriod) = 0
    /\ PeriodSum(LastPeriod) = 1200
    /\ TrendIs("Stable Spending Pattern")

\* two periods and no trend insight
NoTrendOfTwoPeriods ==
    InsightsComputed /\ Cardinality(Periods) = 2 /\ insights[1].trend_message = None

(***************************************************************************)
(* Properties of the Supplier Risk page's alerts and rankings.             *)
(***************************************************************************)
\* what the Detailed Risk Profile says for each supplier the selectbox offers
RiskProfiles ==
    IF risk_view = None \/ risk_view[1].profiles = None
    THEN << >>
    ELSE risk_view[1].profiles[1]

AlertsOf(id) == Range(RiskProfiles[id].alerts)

MessagesOf(id, kind) ==
    {m \in Range(RiskProfiles[id].messages) : m.kind = kind}

NoAlertShown ==
    \E a \in DOMAIN RiskProfiles :
        /\ RiskProfiles[a].selected_supplier.DeliveryScore >= 60
        /\ RiskProfiles[a].selected_supplier.FinancialRisk <= 70
        /\ RiskProfiles[a].messages =
              <<[kind |-> "success", text |-> "No significant risk alerts"]>>

(***************************************************************************)
(* Properties of the sample generators.                                    *)
(***************************************************************************)
SampleDataLoaded == session_state # EmptySessionState

\* the values of a column are all different
IsKey(df, col) == Cardinality(unique(df, col)) = len(df)

\* C24: the sample tables are consistent with one another though each comes
\* of a generator call of its own: every SupplierID of the Contract table and
\* of the Performance table is a SupplierID of the Supplier table, every
\* Supplier of the Spend table is a SupplierName of the Supplier table, and
\* no SupplierID of the Supplier table and no ContractID of the Contract
\* table occurs twice.
C24_SampleTablesConsistent ==
    SampleDataLoaded =>
        /\ unique(session_state.contract_data, "SupplierID")
              \subseteq unique(session_state.supplier_data, "SupplierID")
        /\ unique(session_state.performance_data, "SupplierID")
              \subseteq unique(session_state.supplier_data, "SupplierID")
        /\ unique(session_state.spend_data, "Supplier")
              \subseteq unique(session_state.supplier_data, "SupplierName")
        /\ IsKey(session_state.supplier_data, "SupplierID")
        /\ IsKey(session_state.contract_data, "ContractID")

\* the fifteen suppliers with one to three contracts by turns, eight
\* quarters of scores for each, and two transactions of two suppliers
C24_Witness ==
    /\ SampleDataLoaded
    /\ len(session_state.supplier_data) = 15
    /\ len(session_state.contract_data) = 30
    /\ len(session_state.performance_data) = 120
    /\ Cardinality(unique(session_state.spend_data, "Supplier")) = 2
    /\ {"C00101", "C00102", "C00011"} \subseteq unique(session_state.contract_data, "ContractID")

(***************************************************************************)
(* Properties of the joins on SupplierID.                                  *)
(***************************************************************************)
\* the risk page has run with these tables and selections
RiskPageRan == pc # "tab3" /\ filtered_suppliers # NoFrame

LatestRecords == latest_performance(session_state.performance_data).rows

\* the SupplierID values of the bars of a dashboard chart
DashboardSuppliers(metric) ==
    IF risk_view = None THEN {}
    ELSE {bar.SupplierID : bar \in Range(risk_view[1].dashboard[metric].data)}

PassesSupplierFilters(s) ==
    /\ risk_category = "All Categories" \/ s.Category = risk_category
    /\ selected_country = "All Countries" \/ s.Country = selected_country

\* a record's OverallScore lies within the score range of the page
WithinScoreRange(r) ==
    r.OverallScore >= score_range[1] /\ r.OverallScore <= score_range[2]

\* every supplier of the dashboard charts passes the category and the
\* country selection
DashboardWithinCategoryAndCountry ==
    RiskPageRan =>
        \A metric \in ScoreColumns : \A id \in DashboardSuppliers(metric) :
            \E s \in Range(session_state.supplier_data.rows) :
                s.SupplierID = id /\ PassesSupplierFilters(s)

\* C29: every supplier shown in the ranking charts of the Supplier
\* Performance Dashboard satisfies all the filters of the risk page: it
\* passes the category and the country selection and its OverallScore of
\* the latest quarter lies within the score range.
C29_DashboardWithinAllFilters ==
    RiskPageRan =>
        \A metric \in ScoreColumns : \A id \in DashboardSuppliers(metric) :
            /\ \E s \in Range(session_state.supplier_data.rows) :
                  s.SupplierID = id /\ PassesSupplierFilters(s)
            /\ \E r \in Range(LatestRecords) :
                  r.SupplierID = id /\ WithinScoreRange(r)

\* the dashboard ranks a supplier whose OverallScore is below the range
\* while another supplier is within it
DashboardSupplierOutOfRange ==
    /\ RiskPageRan
    /\ error = "none"
    /\ \E id \in DashboardSuppliers("OverallScore") :
          /\ id \notin unique(supplier_performance, "SupplierID")
          /\ \A r \in Range(LatestRecords) :
                r.SupplierID = id => r.OverallScore < score_range[1]

(***************************************************************************)
(* Properties of the ranking charts.                                       *)
(***************************************************************************)
\* the three ranking charts are drawn: figures holds fig2 of the category
\* page, fig1 and fig7 of the risk page
RankingsDrawn == pc = "idle" /\ Len(figures) = 3

\* the entities a chart ranks, each with its label and its measure
SpendEntities ==
    LET totals == SupplierTotals(filtered_data)
    IN  {[id |-> s, y |-> s, x |-> Whole(totals[s])] : s \in DOMAIN totals}

PerformanceEntities ==
    {[id |-> e[1].SupplierID, y |-> e[1].SupplierName, x |-> Whole(e[2].OverallScore)] :
        e \in {e \in Range(filtered_suppliers.rows) \X Range(LatestRecords) :
                  e[1].SupplierID = e[2].SupplierID}}

RiskEntities ==
    {[id |-> r.SupplierID, y |-> r.SupplierName, x |-> Whole(r.RiskScore)] :
        r \in Range(supplier_performance.rows)}

\* the entities a chart shows
ShownSpend == {[id |-> b.y, y |-> b.y, x |-> b.x] : b \in Range(figures[1].data)}

ShownOf(chart) ==
    {[id |-> b.SupplierID, y |-> b.y, x |-> b.x] : b \in Range(chart.data)}

\* shown holds n of the entities, or all of them when they are fewer, and
\* no entity left out has a measure above that of an entity shown
IsTopN(shown, entities, n) ==
    /\ Cardinality(shown) = (IF Cardinality(entities) < n THEN Cardinality(entities) ELSE n)
    /\ \A b \in shown :
          \E e \in entities :
              e.id = b.id /\ e.y = b.y /\ FracLE(e.x, b.x) /\ FracLE(b.x, e.x)
    /\ \A e \in entities :
          e.id \notin {b.id : b \in shown} => \A b \in shown : FracLE(e.x, b.x)

\* the label at the top of the y axis is that of an entity no other entity
\* has a measure above
HighestIsTopmost(chart, entities) ==
    entities # {} =>
        \E e \in entities :
            /\ \A f \in entities : FracLE(f.x, e.x)
            /\ e.y = chart.yaxis[Len(chart.yaxis)]

\* each chart shows the 10 (by spend, by risk) or 15 (by performance)
\* entities of the highest measures
RankingsAreTopN ==
    RankingsDrawn =>
        /\ IsTopN(ShownSpend, SpendEntities, 10)
        /\ IsTopN(ShownOf(figures[2]), PerformanceEntities, TopPerformance)
        /\ IsTopN(ShownOf(figures[3]), RiskEntities, TopRisk)

\* the supplier of the highest spend is topmost in the chart by spend
HighestSpendIsTopmost ==
    RankingsDrawn => HighestIsTopmost(figures[1], SpendEntities)

\* no two suppliers of the supplier table have one name
SupplierNamesDiffer == IsKey(filtered_suppliers, "SupplierName")

\* with no name shared, the supplier of the highest measure is topmost in
\* the charts by performance and by risk
HighestIsTopmostWhenNamesDiffer ==
    RankingsDrawn /\ SupplierNamesDiffer =>
        /\ HighestIsTopmost(figures[2], PerformanceEntities)
        /\ HighestIsTopmost(figures[3], RiskEntities)

\* C28: the ranking charts are cut to the top N after a descending sort by
\* the measure (N = 10 for the top suppliers by spend and by risk, N = 15
\* for supplier performance): every entity shown has a measure at least
\* that of every entity left out, at most N entities are shown, and the
\* entity of the highest measure is the topmost, whatever the order of the
\* table.
C28_RankingsTopNHighestTopmost ==
    RankingsDrawn =>
        /\ IsTopN(ShownSpend, SpendEntities, 10)
        /\ IsTopN(ShownOf(figures[2]), PerformanceEntities, TopPerformance)
        /\ IsTopN(ShownOf(figures[3]), RiskEntities, TopRisk)
        /\ HighestIsTopmost(figures[1], SpendEntities)
        /\ HighestIsTopmost(figures[2], PerformanceEntities)
        /\ HighestIsTopmost(figures[3], RiskEntities)

\* more suppliers than each chart keeps, in ascending order of the measure
MoreThanTopNRanked ==
    /\ RankingsDrawn
    /\ Cardinality(SpendEntities) > 10
    /\ Cardinality(PerformanceEntities) > TopPerformance
    /\ Cardinality(RiskEntities) > TopRisk
    /\ filtered_data.rows[1].Amount < filtered_data.rows[2].Amount

\* two suppliers of one name are topmost in the chart by risk while a third
\* supplier has the highest RiskScore
SharedNameIsTopmost ==
    /\ RankingsDrawn
    /\ \E e \in RiskEntities :
          /\ \A f \in RiskEntities \ {e} : FracLT(f.x, e.x)
          /\ e.y # figures[3].yaxis[Len(figures[3].yaxis)]

(***************************************************************************)
(* Properties of the order of the validator's checks.                      *)
(***************************************************************************)
\* the upload handler has validated the file of the uploader
FileValidated == uploaded_file # None /\ validation # None

\* the rows of the file whose Supplier cell is empty
MissingSuppliers(file) == {i \in DOMAIN file.rows : file.rows[i].Supplier = ""}

\* C27: validate_data makes its checks in one order and reports the first
\* failure alone: the unsupported extension (before the file is parsed),
\* then the parse error, then the missing required columns, then for Spend
\* Data the Amount that is not numeric, then for Spend Data the number of
\* rows without a Supplier; the message of a later check is never reported
\* while an earlier check fails.
C27_FirstFailureIsReported ==
    FileValidated =>
        LET file == uploaded_file[1]
            is_valid == validation[1][1]
            message == validation[1][2]
        IN  IF UnsupportedExtension(file) THEN
                /\ ~is_valid
                /\ message = <<"Unsupported file type. Please upload a CSV or Excel file.">>
            ELSE IF ParseFails(file) THEN
                ~is_valid /\ message[1] = "Error during validation: "
            ELSE IF AbsentRequired(file, data_type) # {} THEN
                /\ ~is_valid
                /\ message[1] = "Missing required columns: "
                /\ \A c \in RequiredSet(data_type) \ file.columns :
                      c \in Range(Tail(message))
            ELSE IF data_type = "Spend Data" /\ NonNumericAmount(file) THEN
                ~is_valid /\ message = <<"Amount column must contain numeric values">>
            ELSE IF data_type = "Spend Data" /\ MissingSuppliers(file) # {} THEN
                /\ ~is_valid
                /\ message = <<"Found ", ToString(Cardinality(MissingSuppliers(file))),
                               " rows with missing supplier information">>
            ELSE is_valid /\ message = <<"Data validated successfully">>

\* a spend file with a text in an Amount cell and an empty Supplier cell is
\* told of its Amount column alone
C27_Witness ==
    /\ FileValidated
    /\ data_type = "Spend Data"
    /\ ~UnsupportedExtension(uploaded_file[1])
    /\ ~ParseFails(uploaded_file[1])
    /\ AbsentRequired(uploaded_file[1], data_type) = {}
    /\ NonNumericAmount(uploaded_file[1])
    /\ MissingSuppliers(uploaded_file[1]) # {}
    /\ validation[1][2] = <<"Amount column must contain numeric values">>

\* a file with an unsupported extension whose bytes would not parse and
\* whose header lacks required columns is told of its extension alone
UnsupportedBeforeParsing ==
    /\ FileValidated
    /\ UnsupportedExtension(uploaded_file[1])
    /\ uploaded_file[1].format = "excel"
    /\ AbsentRequired(uploaded_file[1], data_type) # {}
    /\ validation[1][2] = <<"Unsupported file type. Please upload a CSV or Excel file.">>

(***************************************************************************)
(* Properties of table replacement and the script's readers.               *)
(***************************************************************************)
\* the script is at a page's show(), or at the welcome tab, which read the
\* tables of the Data Store
PageReads == pc \in {"tab1", "tab2", "tab3", "tab4"}

\* the script is in the code of the tabs
InTabs == pc \in {"tab1", "tab2", "tab2_end", "tab3", "tab3_end", "tab4", "tab4_end"}

\* the reset has assigned some of the four tables and not yet all of them
HalfReset == pc \in ResetAssigning

PageReadsAfterReset ==
    /\ PageReads
    /\ trigger = "reset"
    /\ uploaded_file = None
    /\ session_state \in MockSessionStates

====
